---- MODULE Spec2Model ----
(***************************************************************************)
(* Multi-pass image analysis: the structured-text extractor                *)
(* (main_multimedia.py, extract_json_from_response), the pass executor,    *)
(* the pipeline orchestrator and the result merger                         *)
(* (comprehensive_analyzer.py, ComprehensiveImageAnalyzer) and the pass    *)
(* registry (prompts.py).                                                  *)
(*                                                                         *)
(* Text is a sequence of characters.  A run of ordinary letters (a word    *)
(* such as main_subjects) is carried as one element of the sequence: the   *)
(* brace scan, the fallback pattern and the JSON grammar treat every       *)
(* letter of such a run alike.                                             *)
(***************************************************************************)
EXTENDS Integers, Sequences, FiniteSets, TLC

VARIABLES
    text,                    \* extractor: the argument of the call
    extracted,               \* extractor: the outcome of the call
    xpc,                     \* extractor: "idle", "call" or "done"
    remaining,               \* extractor: the argument of the innermost call
    rescans,                 \* extractor: recursive calls made so far
    quick_mode,              \* analyzer configuration
    enable_context_chaining, \* analyzer configuration
    max_retries,             \* analyzer configuration
    image_metadata,          \* argument of analyze
    result,                  \* the ComprehensiveAnalysisResult being built
    previous_analysis,       \* context accumulator of the comprehensive run
    pc,                      \* position inside analyze
    pass_index,              \* index of the current pass in the mode's list
    attempt,                 \* loop variable of the retry loop
    prompt,                  \* prompt of the current pass
    raw_response,            \* local of _run_single_pass (unset, or a text)
    pass_result,             \* AnalysisResult returned by _run_single_pass
    calls,                   \* backend invocations made by the current pass
    attempt_log,             \* what each attempt of the current pass gave
    invocations,             \* backend invocations of the session, kept when count_calls
    trace,                   \* whether attempt_log is kept (SpecPass)
    count_calls,             \* whether invocations is kept (SpecSession)
    pass_type_arg,           \* argument pass_type of the running _run_single_pass
    options,                 \* generation options of the running call
    registry,                \* prompts.PROMPTS, the module's pass registry
    orch_error,              \* what raised into analyze's handler, or "none"
    results_arg,             \* argument results of a _combine_results call
    combined,                \* what the _combine_results call gave
    mpc,                     \* position of the _combine_results caller
    images,                  \* analyze_batch: the argument images
    max_concurrent,          \* analyze_batch: the argument max_concurrent
    batch_results,           \* analyze_batch: the local results
    image_at,                \* analyze_batch: 1 + the loop variable i
    bpc                      \* analyze_batch: "idle", "loop", "session", "returned"

vars == <<text, extracted, xpc, remaining, rescans, quick_mode, enable_context_chaining,
          max_retries, image_metadata, result, previous_analysis, pc,
          pass_index, attempt, prompt, raw_response, pass_result, calls,
          attempt_log, invocations, trace, count_calls, pass_type_arg, options, registry,
          orch_error, results_arg, combined, mpc, images, max_concurrent,
          batch_results, image_at, bpc>>

batchVars == <<images, max_concurrent, batch_results, image_at, bpc>>

mergerVars == <<results_arg, combined, mpc>>

extractorVars == <<text, extracted, xpc, remaining, rescans>>

analyzerVars == <<quick_mode, enable_context_chaining, max_retries,
                  image_metadata, result, previous_analysis, pc, pass_index,
                  attempt, prompt, raw_response, pass_result, calls,
                  attempt_log, invocations, trace, count_calls, pass_type_arg, options, orch_error>>

registryVars == <<registry>>

-----------------------------------------------------------------------------
(* JSON values.  Every value is a record of the same four fields, so that   *)
(* values of different kinds can be compared.                               *)

JNull == [k |-> "null", n |-> 0, s |-> <<>>, c |-> <<>>]

JBool(b) == [k |-> IF b THEN "true" ELSE "false", n |-> 0, s |-> <<>>, c |-> <<>>]

JNum(x) == [k |-> "num", n |-> x, s |-> <<>>, c |-> <<>>]

JStr(chars) == [k |-> "str", n |-> 0, s |-> chars, c |-> <<>>]

JArr(items) == [k |-> "arr", n |-> 0, s |-> <<>>, c |-> items]

JMember(key, value) == [k |-> "member", n |-> 0, s |-> key, c |-> <<value>>]

JObj(members) == [k |-> "obj", n |-> 0, s |-> <<>>, c |-> members]

IsDict(v) == v.k = "obj"

\* Python truth value of a decoded JSON value.
Truthy(v) ==
    CASE v.k = "obj" -> v.c # <<>>
      [] v.k = "arr" -> v.c # <<>>
      [] v.k = "str" -> v.s # <<>>
      [] v.k = "num" -> v.n # 0
      [] v.k = "true" -> TRUE
      [] OTHER -> FALSE

\* key in d, for a dict d.
HasKey(d, key) == \E m \in 1..Len(d.c) : d.c[m].s = key

\* d.get(key, default), for a dict d.
Get(d, key, default) ==
    IF HasKey(d, key)
    THEN d.c[CHOOSE m \in 1..Len(d.c) : d.c[m].s = key].c[1]
    ELSE default

\* d[key] = value on the sequence of members of a dict: a repeated key keeps
\* its place and takes the new value.
SetMember(members, key, value) ==
    IF \E m \in 1..Len(members) : members[m].s = key
    THEN [m \in 1..Len(members) |->
             IF members[m].s = key THEN JMember(key, value) ELSE members[m]]
    ELSE Append(members, JMember(key, value))

-----------------------------------------------------------------------------
(* json.loads, on the characters of the model's alphabet.                   *)

Whitespace == {" "}

Digits == {"0", "1", "2", "3", "4", "5", "6", "7", "8", "9"}

DigitVal(ch) ==
    CASE ch = "0" -> 0 [] ch = "1" -> 1 [] ch = "2" -> 2 [] ch = "3" -> 3
      [] ch = "4" -> 4 [] ch = "5" -> 5 [] ch = "6" -> 6 [] ch = "7" -> 7
      [] ch = "8" -> 8 [] ch = "9" -> 9

\* The characters a backslash may precede inside a string; a word is
\* judged by its first letter, so the words of the inputs do not start
\* with b, f, r, t or u.
Escapable == {"\"", "\\", "/", "n"}

Unescape(ch) == IF ch = "n" THEN "\n" ELSE ch

\* A decoding step's outcome: ok, the value, and the index after it.
DecodeError == [ok |-> FALSE, v |-> JNull, j |-> 0]

Decoded(value, next) == [ok |-> TRUE, v |-> value, j |-> next]

RECURSIVE SkipWs(_, _)
SkipWs(t, i) ==
    IF i <= Len(t) /\ t[i] \in Whitespace THEN SkipWs(t, i + 1) ELSE i

\* scanstring: i is the index after the opening quote.
RECURSIVE ScanString(_, _, _)
ScanString(t, i, acc) ==
    IF i > Len(t) THEN DecodeError
    ELSE IF t[i] = "\"" THEN Decoded(JStr(acc), i + 1)
    ELSE IF t[i] = "\\" THEN
        IF i + 1 <= Len(t) /\ t[i + 1] \in Escapable
        THEN ScanString(t, i + 2, Append(acc, Unescape(t[i + 1])))
        ELSE DecodeError
    ELSE ScanString(t, i + 1, Append(acc, t[i]))

\* The integer form (0|[1-9][0-9]*): i is the index of the first digit.
RECURSIVE ScanDigits(_, _, _)
ScanDigits(t, i, acc) ==
    IF i <= Len(t) /\ t[i] \in Digits
    THEN ScanDigits(t, i + 1, 10 * acc + DigitVal(t[i]))
    ELSE Decoded(JNum(acc), i)

ScanNumber(t, i) ==
    IF t[i] = "0" THEN Decoded(JNum(0), i + 1) ELSE ScanDigits(t, i, 0)

RECURSIVE ScanOnce(_, _)
RECURSIVE ScanMembers(_, _, _)
RECURSIVE ScanItems(_, _, _)

\* JSONObject after the opening brace; i is at the quote opening a key.
ScanMembers(t, i, acc) ==
    IF ~(i <= Len(t) /\ t[i] = "\"") THEN DecodeError
    ELSE LET key == ScanString(t, i + 1, <<>>) IN
        IF ~key.ok THEN DecodeError
        ELSE LET colon == SkipWs(t, key.j) IN
            IF ~(colon <= Len(t) /\ t[colon] = ":") THEN DecodeError
            ELSE LET value == ScanOnce(t, SkipWs(t, colon + 1)) IN
                IF ~value.ok THEN DecodeError
                ELSE LET sep == SkipWs(t, value.j)
                         members == SetMember(acc, key.v.s, value.v)
                     IN  IF sep > Len(t) THEN DecodeError
                         ELSE IF t[sep] = "}" THEN Decoded(JObj(members), sep + 1)
                         ELSE IF t[sep] = ","
                              THEN ScanMembers(t, SkipWs(t, sep + 1), members)
                         ELSE DecodeError

\* JSONArray after the opening bracket; i is at the start of an item.
ScanItems(t, i, acc) ==
    LET value == ScanOnce(t, i) IN
    IF ~value.ok THEN DecodeError
    ELSE LET sep == SkipWs(t, value.j)
             items == Append(acc, value.v)
         IN  IF sep > Len(t) THEN DecodeError
             ELSE IF t[sep] = "]" THEN Decoded(JArr(items), sep + 1)
             ELSE IF t[sep] = "," THEN ScanItems(t, SkipWs(t, sep + 1), items)
             ELSE DecodeError

\* scan_once: one JSON value starting exactly at index i.
ScanOnce(t, i) ==
    IF i > Len(t) THEN DecodeError
    ELSE CASE t[i] = "\"" -> ScanString(t, i + 1, <<>>)
           [] t[i] = "{" ->
                LET first == SkipWs(t, i + 1) IN
                IF first <= Len(t) /\ t[first] = "}"
                THEN Decoded(JObj(<<>>), first + 1)
                ELSE ScanMembers(t, first, <<>>)
           [] t[i] = "[" ->
                LET first == SkipWs(t, i + 1) IN
                IF first <= Len(t) /\ t[first] = "]"
                THEN Decoded(JArr(<<>>), first + 1)
                ELSE ScanItems(t, first, <<>>)
           [] t[i] = "null" -> Decoded(JNull, i + 1)
           [] t[i] = "true" -> Decoded(JBool(TRUE), i + 1)
           [] t[i] = "false" -> Decoded(JBool(FALSE), i + 1)
           [] t[i] \in Digits -> ScanNumber(t, i)
           [] OTHER -> DecodeError

\* json.loads(t): ok = FALSE stands for json.JSONDecodeError.
Loads(t) ==
    LET value == ScanOnce(t, SkipWs(t, 1)) IN
    IF value.ok /\ SkipWs(t, value.j) = Len(t) + 1 THEN value ELSE DecodeError

-----------------------------------------------------------------------------
(* extract_json_from_response (main_multimedia.py).                         *)

\* The outcome of a call: a value, the failure signal None, or an exception
\* leaving the function.
ExtractNone == [st |-> "none", v |-> JNull]

ExtractValue(value) == [st |-> "value", v |-> value]

ExtractRaise == [st |-> "raise", v |-> JNull]

\* str.strip()
RECURSIVE Strip(_)
Strip(t) ==
    IF t = <<>> THEN t
    ELSE IF Head(t) \in Whitespace THEN Strip(Tail(t))
    ELSE IF t[Len(t)] \in Whitespace THEN Strip(SubSeq(t, 1, Len(t) - 1))
    ELSE t

\* str.find(ch), 1-based; 0 when ch does not occur.
Find(t, ch) ==
    IF \E i \in 1..Len(t) : t[i] = ch
    THEN CHOOSE i \in 1..Len(t) : t[i] = ch /\ \A h \in 1..(i - 1) : t[h] # ch
    ELSE 0

\* The locals of the brace scan before its loop.
ScanStart ==
    [brace_count |-> 0, in_string |-> FALSE, escape_next |-> FALSE,
     closed |-> FALSE]

\* The scan step with braces counted inside quoted strings too.
ScanStep_CountsInStrings(sc, char) ==
    IF sc.escape_next THEN [sc EXCEPT !.escape_next = FALSE]
    ELSE IF char = "\\" /\ sc.in_string THEN [sc EXCEPT !.escape_next = TRUE]
    ELSE IF char = "\"" THEN [sc EXCEPT !.in_string = ~sc.in_string]
    ELSE IF char = "{" THEN [sc EXCEPT !.brace_count = sc.brace_count + 1]
    ELSE IF char = "}" THEN
        [sc EXCEPT !.brace_count = sc.brace_count - 1,
                   !.closed = (sc.brace_count - 1 = 0)]
    ELSE sc

\* The scan step with a backslash that escapes outside strings too.
ScanStep_EscapesOutsideStrings(sc, char) ==
    IF sc.escape_next THEN [sc EXCEPT !.escape_next = FALSE]
    ELSE IF char = "\\" THEN [sc EXCEPT !.escape_next = TRUE]
    ELSE IF char = "\"" THEN [sc EXCEPT !.in_string = ~sc.in_string]
    ELSE IF sc.in_string THEN sc
    ELSE IF char = "{" THEN [sc EXCEPT !.brace_count = sc.brace_count + 1]
    ELSE IF char = "}" THEN
        [sc EXCEPT !.brace_count = sc.brace_count - 1,
                   !.closed = (sc.brace_count - 1 = 0)]
    ELSE sc

\* One iteration of the scan loop on character char; closed is set when the
\* depth counter returns to zero.
ScanStep(sc, char) ==
    IF sc.escape_next THEN [sc EXCEPT !.escape_next = FALSE]
    ELSE IF char = "\\" /\ sc.in_string THEN [sc EXCEPT !.escape_next = TRUE]
    ELSE IF char = "\"" THEN [sc EXCEPT !.in_string = ~sc.in_string]
    ELSE IF sc.in_string THEN sc
    ELSE IF char = "{" THEN [sc EXCEPT !.brace_count = sc.brace_count + 1]
    ELSE IF char = "}" THEN
        [sc EXCEPT !.brace_count = sc.brace_count - 1,
                   !.closed = (sc.brace_count - 1 = 0)]
    ELSE sc

\* The scan loop from index i: the index of the brace that closes the
\* candidate, or 0 when the loop runs off the end of the text.
RECURSIVE BraceScan(_, _, _)
BraceScan(t, i, sc) ==
    IF i > Len(t) THEN 0
    ELSE LET next == ScanStep(sc, t[i]) IN
         IF next.closed THEN i ELSE BraceScan(t, i + 1, next)

NotBrace(ch) == ch # "{" /\ ch # "}"

\* t[i..j] matches \{[^{}]+\}
PatternAt(t, i, j) ==
    /\ t[i] = "{"
    /\ t[j] = "}"
    /\ j > i + 1
    /\ \A h \in (i + 1)..(j - 1) : NotBrace(t[h])

\* re.search(r'\{[^{}]+\}', t): the leftmost match, or <<>> when none.
SimpleMatch(t) ==
    LET starts == {i \in 1..Len(t) : \E j \in 1..Len(t) : PatternAt(t, i, j)} IN
    IF starts = {} THEN <<>>
    ELSE LET i == CHOOSE x \in starts : \A y \in starts : x <= y
             j == CHOOSE x \in 1..Len(t) : PatternAt(t, i, x)
         IN  SubSeq(t, i, j)

\* The fallback without its except clause.
Strategy3_Uncaught(t) ==
    LET simple_match == SimpleMatch(t) IN
    IF simple_match = <<>> THEN ExtractNone
    ELSE LET parsed == Loads(simple_match) IN
         IF parsed.ok THEN ExtractValue(parsed.v) ELSE ExtractRaise

\* The fallback left out.
Strategy3_Skipped(t) == ExtractNone

\* Strategy 3: the fallback pattern.
Strategy3(t) ==
    LET simple_match == SimpleMatch(t) IN
    IF simple_match = <<>> THEN ExtractNone
    ELSE LET parsed == Loads(simple_match) IN
         IF parsed.ok THEN ExtractValue(parsed.v) ELSE ExtractNone

\* A remainder that starts after the opening brace of the candidate.
Remaining_AfterOpeningBrace(t, i) == SubSeq(t, Find(t, "{") + 1, Len(t))

\* Line 180: remaining = text[i+1:], i the index of the closing brace.
Remaining(t, i) == SubSeq(t, i + 1, Len(t))

\* The call returns the outcome.
Return(outcome) == [returns |-> TRUE, outcome |-> outcome, rest |-> <<>>]

\* The call goes on to call itself on rest (line 181).
Recurse(rest) == [returns |-> FALSE, outcome |-> ExtractNone, rest |-> rest]

\* One call of extract_json_from_response on t, up to its return or to the
\* recursive call.
OneCall(t) ==
    IF t = <<>> THEN Return(ExtractNone)
    ELSE LET whole == Loads(Strip(t)) IN
    IF whole.ok THEN Return(ExtractValue(whole.v))
    ELSE LET start_idx == Find(t, "{") IN
    IF start_idx = 0 THEN Return(ExtractNone)
    ELSE LET i == BraceScan(t, start_idx, ScanStart) IN
    IF i = 0 THEN Return(Strategy3(t))
    ELSE LET candidate == Loads(SubSeq(t, start_idx, i)) IN
    IF candidate.ok THEN Return(ExtractValue(candidate.v))
    ELSE Recurse(Remaining(t, i))

\* The function: every call returns what the call it makes returns.
RECURSIVE extract_json_from_response(_)
extract_json_from_response(t) ==
    IF t = <<>> THEN ExtractNone
    ELSE LET whole == Loads(Strip(t)) IN
    IF whole.ok THEN ExtractValue(whole.v)
    ELSE LET start_idx == Find(t, "{") IN
    IF start_idx = 0 THEN ExtractNone
    ELSE LET i == BraceScan(t, start_idx, ScanStart) IN
    IF i = 0 THEN Strategy3(t)
    ELSE LET candidate == Loads(SubSeq(t, start_idx, i)) IN
    IF candidate.ok THEN ExtractValue(candidate.v)
    ELSE extract_json_from_response(Remaining(t, i))

-----------------------------------------------------------------------------
(* Inputs of the extractor: every concatenation of at most MaxFrags         *)
(* fragments (InputTexts(MaxFrags)).                                        *)

MaxFrags == 5

Fragments ==
    { <<"{">>, <<"}">>, <<"\"">>, <<"\\">>, <<"a">>, <<"1">>,
      <<"\"", "a", "\"", ":", "1">>, <<"[", "1", "]">> }

RECURSIVE Concat(_)
Concat(parts) == IF parts = <<>> THEN <<>> ELSE Head(parts) \o Concat(Tail(parts))

InputTexts(most) ==
    {Concat(parts) : parts \in UNION {[1..n -> Fragments] : n \in 0..most}}

\* Inputs with an object whose string value holds braces, escaped quotes
\* and escaped backslashes: {"a":"..."} with at most MaxStr pieces in the
\* string, between a piece of prose before and one after.
MaxStr == 3

StringPieces ==
    { <<"{">>, <<"}">>, <<"a">>, <<"\\", "\"">>, <<"\\", "\\">> }

StringContents ==
    {Concat(parts) : parts \in UNION {[1..n -> StringPieces] : n \in 0..MaxStr}}

ProseBefore == { <<>>, <<"a">>, <<"\"">>, <<"}">> }

ProseAfter == { <<>>, <<"a">>, <<"\"">>, <<"}">>, <<"{">> }

\* Inputs with several brace groups: at most MaxPieces pieces, each a group
\* that is not JSON, one of two objects, an array holding an object, or a
\* word of prose.
MaxPieces == 3

GroupPieces ==
    { <<"{", "a", "}">>,
      <<"{", "\"", "a", "\"", ":", "1", "}">>,
      <<"{", "\"", "a", "\"", ":", "0", "}">>,
      <<"[", "{", "\"", "a", "\"", ":", "1", "}", "]">>,
      <<"a">> }

GroupTexts ==
    {Concat(parts) : parts \in UNION {[1..n -> GroupPieces] : n \in 1..MaxPieces}}

QuotedBraceTexts ==
    {before \o <<"{", "\"", "a", "\"", ":", "\"">> \o content \o <<"\"", "}">> \o after :
        before \in ProseBefore, content \in StringContents, after \in ProseAfter}

-----------------------------------------------------------------------------
(* The pass registry and prompt construction (prompts.py).                  *)

\* PromptConfig: the generation parameters of a pass; the temperature is
\* counted in tenths (0.3 is 3).
PromptConfig(temperature, max_tokens) ==
    [set |-> TRUE, temperature |-> temperature, max_tokens |-> max_tokens]

\* None in place of a PromptConfig.
NoConfig == [set |-> FALSE, temperature |-> 0, max_tokens |-> 0]

\* The registry as the module creates it: a pass identifier is mapped to
\* its prompt template, named after the pass, and to its configuration.
PROMPTS ==
    [name \in {"content", "people", "quality", "context", "quick", "scene"} |->
        [template |-> name,
         config |-> CASE name = "quality" -> PromptConfig(2, 1024)
                      [] name = "quick" -> PromptConfig(3, 512)
                      [] name = "scene" -> NoConfig
                      [] OTHER -> PromptConfig(3, 1024)]]

\* build_analysis_chain: the passes each pass declares in depends_on.
build_analysis_chain ==
    [name \in {"content", "people", "quality", "context"} |->
        CASE name = "content" -> {}
          [] name = "context" -> {"content", "people"}
          [] OTHER -> {"content"}]

get_comprehensive_passes == <<"content", "people", "quality", "context">>

\* The value of a word used as a dict key or a string.
W(word) == <<word>>

\* A prompt: the registered template and the context lines appended to it.
Prompt(template, additions) == [template |-> template, context |-> additions]

\* An operation that may raise: raised, or the value it returns.
Raised == [raised |-> TRUE, v |-> JNull]

Returned(value) == [raised |-> FALSE, v |-> value]

\* get_prompt: ValueError for an unregistered pass.
get_prompt(name) ==
    IF name \in DOMAIN registry
    THEN [raised |-> FALSE, prompt |-> Prompt(registry[name].template, <<>>)]
    ELSE [raised |-> TRUE, prompt |-> Prompt("", <<>>)]

\* get_config: None for an unregistered pass.
get_config(name) ==
    IF name \in DOMAIN registry THEN registry[name].config ELSE NoConfig

\* key in container: TypeError when the container is not iterable.
PyIn(key, container) ==
    CASE container.k = "obj" -> Returned(JBool(HasKey(container, W(key))))
      [] container.k = "arr" ->
            Returned(JBool(\E i \in 1..Len(container.c) :
                               container.c[i] = JStr(W(key))))
      [] container.k = "str" ->
            Returned(JBool(\E i \in 1..Len(container.s) : container.s[i] = key))
      [] OTHER -> Raised

\* The pieces str.join iterates over: TypeError (raised) unless the value
\* is iterable and yields strings only.
JoinPieces(v) ==
    CASE v.k = "arr" ->
            IF \A i \in 1..Len(v.c) : v.c[i].k = "str"
            THEN [raised |-> FALSE, pieces |-> [i \in 1..Len(v.c) |-> v.c[i].s]]
            ELSE [raised |-> TRUE, pieces |-> <<>>]
      [] v.k = "str" ->
            [raised |-> FALSE, pieces |-> [i \in 1..Len(v.s) |-> <<v.s[i]>>]]
      [] v.k = "obj" ->
            [raised |-> FALSE, pieces |-> [i \in 1..Len(v.c) |-> v.c[i].s]]
      [] OTHER -> [raised |-> TRUE, pieces |-> <<>>]

\* ", ".join(pieces)
RECURSIVE Join(_)
Join(pieces) ==
    IF pieces = <<>> THEN <<>>
    ELSE IF Len(pieces) = 1 THEN pieces[1]
    ELSE pieces[1] \o <<",", " ">> \o Join(Tail(pieces))

\* One line of the context block: its label, its joined text and the
\* values formatted into it.
Addition(label, joined, args) == [label |-> label, text |-> joined, args |-> args]

\* The lines built from previous_analysis["content"]; raised when the data
\* does not have the shape the code reads.
ContentAdditions(content) ==
    LET has_subjects == PyIn("main_subjects", content)
        has_setting == PyIn("setting", content)
    IN
    IF has_subjects.raised THEN [raised |-> TRUE, lines |-> <<>>]
    ELSE LET subjects ==
                 IF has_subjects.v.k # "true" THEN [raised |-> FALSE, lines |-> <<>>]
                 ELSE IF ~IsDict(content) THEN [raised |-> TRUE, lines |-> <<>>]
                 ELSE LET pieces == JoinPieces(Get(content, W("main_subjects"), JArr(<<>>))) IN
                      IF pieces.raised THEN [raised |-> TRUE, lines |-> <<>>]
                      ELSE [raised |-> FALSE,
                            lines |-> <<Addition("Main subjects identified",
                                                 Join(pieces.pieces), <<>>)>>]
             setting ==
                 IF has_setting.v.k # "true" THEN [raised |-> FALSE, lines |-> <<>>]
                 ELSE IF ~IsDict(content) THEN [raised |-> TRUE, lines |-> <<>>]
                 ELSE LET value == Get(content, W("setting"), JObj(<<>>)) IN
                      IF ~IsDict(value) THEN [raised |-> TRUE, lines |-> <<>>]
                      ELSE [raised |-> FALSE,
                            lines |-> <<Addition("Setting", <<>>,
                                <<Get(value, W("type"), JStr(W("unknown"))),
                                  Get(value, W("location_type"), JStr(W("unknown")))>>)>>]
         IN  IF subjects.raised \/ setting.raised
             THEN [raised |-> TRUE, lines |-> <<>>]
             ELSE [raised |-> FALSE, lines |-> subjects.lines \o setting.lines]

\* The lines built from image_metadata (a dict, or None).
MetadataAdditions(metadata) ==
    IF ~Truthy(metadata) THEN <<>>
    ELSE (IF HasKey(metadata, W("width")) /\ HasKey(metadata, W("height"))
          THEN <<Addition("Image dimensions", <<>>,
                          <<Get(metadata, W("width"), JNull),
                            Get(metadata, W("height"), JNull)>>)>>
          ELSE <<>>)
         \o
         (IF HasKey(metadata, W("camera_model"))
             /\ Truthy(Get(metadata, W("camera_model"), JNull))
          THEN <<Addition("Camera", <<>>, <<Get(metadata, W("camera_model"), JNull)>>)>>
          ELSE <<>>)

\* format_prompt_with_context; previous is the context accumulator, a
\* function from pass identifiers to pass data.
format_prompt_with_context(template, previous, metadata) ==
    LET from_content ==
            IF "content" \in DOMAIN previous
            THEN ContentAdditions(previous["content"])
            ELSE [raised |-> FALSE, lines |-> <<>>]
    IN  IF from_content.raised
        THEN [raised |-> TRUE, prompt |-> template]
        ELSE [raised |-> FALSE,
              prompt |-> [template EXCEPT
                  !.context = @ \o from_content.lines \o MetadataAdditions(metadata)]]

-----------------------------------------------------------------------------
(* The result merger: ComprehensiveImageAnalyzer._combine_results.          *)

\* results.get(pass_type, {})
PassData(results, pass_type) ==
    IF pass_type \in DOMAIN results THEN results[pass_type] ELSE JObj(<<>>)

\* The values a for-loop over v visits; raised when v is not iterable.
IterItems(v) ==
    CASE v.k = "arr" -> [raised |-> FALSE, items |-> v.c]
      [] v.k = "obj" ->
            [raised |-> FALSE, items |-> [i \in 1..Len(v.c) |-> JStr(v.c[i].s)]]
      [] v.k = "str" ->
            [raised |-> FALSE, items |-> [i \in 1..Len(v.s) |-> JStr(<<v.s[i]>>)]]
      [] OTHER -> [raised |-> TRUE, items |-> <<>>]

\* [p.get("emotion", "unknown") for p in persons if p.get("emotion")]
RECURSIVE Emotions(_)
Emotions(persons) ==
    IF persons = <<>> THEN <<>>
    ELSE LET emotion == Get(Head(persons), W("emotion"), JNull) IN
         (IF Truthy(emotion) THEN <<emotion>> ELSE <<>>) \o Emotions(Tail(persons))

\* The members of combined["summary"] after the four blocks.
SummaryMembers(content, people, quality, context) ==
    LET s1 == IF ~Truthy(content) THEN <<>>
              ELSE SetMember(SetMember(SetMember(SetMember(<<>>,
                       W("main_subjects"), Get(content, W("main_subjects"), JArr(<<>>))),
                       W("setting"), Get(content, W("setting"), JObj(<<>>))),
                       W("description"), Get(content, W("description"), JStr(<<>>))),
                       W("activities"), Get(content, W("activities"), JArr(<<>>)))
        s2 == IF ~Truthy(people) THEN s1
              ELSE SetMember(SetMember(s1,
                       W("group_dynamics"), Get(people, W("group_dynamics"), JObj(<<>>))),
                       W("emotions"),
                       JArr(Emotions(IterItems(Get(people, W("people"), JArr(<<>>))).items)))
        s3 == IF ~Truthy(quality) THEN s2
              ELSE SetMember(s2, W("technical_issues"),
                             Get(quality, W("technical_issues"), JArr(<<>>)))
    IN  IF ~Truthy(context) THEN s3
        ELSE SetMember(SetMember(s3,
                 W("occasion"), Get(context, W("occasion"), JObj(<<>>))),
                 W("temporal"), Get(context, W("temporal"), JObj(<<>>)))

\* The members of combined with quality_score written only when the quality
\* data has a score.
CombinedMembers_ScoreOnlyWhenPresent(content, people, quality, context) ==
    LET c0 == << JMember(W("summary"),
                         JObj(SummaryMembers(content, people, quality, context))),
                 JMember(W("tags"), JArr(<<>>)),
                 JMember(W("searchable_keywords"), JArr(<<>>)),
                 JMember(W("suggested_albums"), JArr(<<>>)),
                 JMember(W("quality_tier"), JStr(W("average"))),
                 JMember(W("has_people"), JBool(FALSE)),
                 JMember(W("people_count"), JNum(0)) >>
        c1 == IF ~Truthy(people) THEN c0
              ELSE SetMember(SetMember(c0,
                       W("has_people"), Get(people, W("has_people"), JBool(FALSE))),
                       W("people_count"), Get(people, W("people_count"), JNum(0)))
        overall == Get(quality, W("overall_quality"), JObj(<<>>))
        c2 == IF ~Truthy(quality) THEN c1
              ELSE LET tiered == SetMember(c1, W("quality_tier"),
                                           Get(overall, W("tier"), JStr(W("average"))))
                   IN  IF HasKey(overall, W("score"))
                       THEN SetMember(tiered, W("quality_score"),
                                      Get(overall, W("score"), JNull))
                       ELSE tiered
        special == Get(context, W("special_attributes"), JObj(<<>>))
    IN  IF ~Truthy(context) THEN c2
        ELSE SetMember(SetMember(SetMember(SetMember(SetMember(SetMember(c2,
                 W("tags"), Get(context, W("suggested_tags"), JArr(<<>>))),
                 W("searchable_keywords"), Get(context, W("searchable_keywords"), JArr(<<>>))),
                 W("suggested_albums"), Get(context, W("suggested_albums"), JArr(<<>>))),
                 W("is_screenshot"), Get(special, W("is_screenshot"), JBool(FALSE))),
                 W("is_document"), Get(special, W("is_document"), JBool(FALSE))),
                 W("is_selfie"), Get(special, W("is_selfie"), JBool(FALSE)))

\* The top-level members of combined after the four blocks.
CombinedMembers(content, people, quality, context) ==
    LET c0 == << JMember(W("summary"),
                         JObj(SummaryMembers(content, people, quality, context))),
                 JMember(W("tags"), JArr(<<>>)),
                 JMember(W("searchable_keywords"), JArr(<<>>)),
                 JMember(W("suggested_albums"), JArr(<<>>)),
                 JMember(W("quality_tier"), JStr(W("average"))),
                 JMember(W("has_people"), JBool(FALSE)),
                 JMember(W("people_count"), JNum(0)) >>
        c1 == IF ~Truthy(people) THEN c0
              ELSE SetMember(SetMember(c0,
                       W("has_people"), Get(people, W("has_people"), JBool(FALSE))),
                       W("people_count"), Get(people, W("people_count"), JNum(0)))
        overall == Get(quality, W("overall_quality"), JObj(<<>>))
        c2 == IF ~Truthy(quality) THEN c1
              ELSE SetMember(SetMember(c1,
                       W("quality_tier"), Get(overall, W("tier"), JStr(W("average")))),
                       W("quality_score"), Get(overall, W("score"), JNum(5)))
        special == Get(context, W("special_attributes"), JObj(<<>>))
    IN  IF ~Truthy(context) THEN c2
        ELSE SetMember(SetMember(SetMember(SetMember(SetMember(SetMember(c2,
                 W("tags"), Get(context, W("suggested_tags"), JArr(<<>>))),
                 W("searchable_keywords"), Get(context, W("searchable_keywords"), JArr(<<>>))),
                 W("suggested_albums"), Get(context, W("suggested_albums"), JArr(<<>>))),
                 W("is_screenshot"), Get(special, W("is_screenshot"), JBool(FALSE))),
                 W("is_document"), Get(special, W("is_document"), JBool(FALSE))),
                 W("is_selfie"), Get(special, W("is_selfie"), JBool(FALSE)))

\* The places where _combine_results raises: .get on a value that is not a
\* dict, or iteration over a value that is not iterable.
CombineRaises(content, people, quality, context) ==
    \/ Truthy(content) /\ ~IsDict(content)
    \/ /\ Truthy(people)
       /\ \/ ~IsDict(people)
          \/ LET persons == IterItems(Get(people, W("people"), JArr(<<>>))) IN
                 \/ persons.raised
                 \/ \E i \in 1..Len(persons.items) : ~IsDict(persons.items[i])
    \/ /\ Truthy(quality)
       /\ \/ ~IsDict(quality)
          \/ ~IsDict(Get(quality, W("overall_quality"), JObj(<<>>)))
    \/ /\ Truthy(context)
       /\ \/ ~IsDict(context)
          \/ ~IsDict(Get(context, W("special_attributes"), JObj(<<>>)))

_combine_results(results) ==
    LET content == PassData(results, "content")
        people == PassData(results, "people")
        quality == PassData(results, "quality")
        context == PassData(results, "context")
    IN  IF CombineRaises(content, people, quality, context) THEN Raised
        ELSE Returned(JObj(CombinedMembers(content, people, quality, context)))

-----------------------------------------------------------------------------
(* The pass executor: ComprehensiveImageAnalyzer._run_single_pass.          *)

\* The analyzer is configured with any max_retries from 0 up to this bound
\* (2 is the default of ComprehensiveImageAnalyzer.__init__).
MaxRetriesBound == 2

\* raw_response[:500]
RawSampleLen == 500

\* An optional text: the local raw_response before its first assignment,
\* and the Optional[str] field of AnalysisResult.
NoText == [set |-> FALSE, text |-> <<>>]

SomeText(t) == [set |-> TRUE, text |-> t]

\* The whole text is kept.
Truncate_Whole(t) == t

\* [:500]
Truncate(t) == IF Len(t) <= RawSampleLen THEN t ELSE SubSeq(t, 1, RawSampleLen)

\* An optional error message.
NoError == [set |-> FALSE, tag |-> "", msg |-> "", n |-> 0]

ErrorMsg(tag, msg, n) == [set |-> TRUE, tag |-> tag, msg |-> msg, n |-> n]

AnalysisResult(pass_type, success, data, error, raw) ==
    [pass_type |-> pass_type, success |-> success, data |-> data,
     error |-> error, raw_response |-> raw]

NoPassResult == AnalysisResult("", FALSE, JObj(<<>>), NoError, NoText)

\* The prompt of the pass with format_prompt_with_context called whenever
\* chaining is enabled, whatever the prior context.
BuildPrompt_FormatsWithoutContext(name, chaining, previous, metadata) ==
    LET registered == get_prompt(name) IN
    IF registered.raised THEN registered
    ELSE IF chaining
         THEN format_prompt_with_context(registered.prompt, previous, metadata)
         ELSE registered

\* Lines 157-166: the prompt of the pass; raised when get_prompt or
\* format_prompt_with_context raises.
BuildPrompt(name, chaining, previous, metadata) ==
    LET registered == get_prompt(name) IN
    IF registered.raised THEN registered
    ELSE IF chaining /\ DOMAIN previous # {}
         THEN format_prompt_with_context(registered.prompt, previous, metadata)
         ELSE registered

\* temperature = ... else 0.3 (in tenths) and max_tokens = ... else 1024
DefaultTemperature == 3

DefaultMaxTokens == 1024

\* options= of the generate call; no call is running.
NoOptions == [temperature |-> 0, num_predict |-> 0]

\* Lines 159, 165-166: the options of the pass's generate calls.
GenerationOptions(name) ==
    LET config == get_config(name) IN
    [temperature |-> IF config.set THEN config.temperature ELSE DefaultTemperature,
     num_predict |-> IF config.set THEN config.max_tokens ELSE DefaultMaxTokens]

\* What the generation backend does on one call: raises, or returns a text.
BackendError == [err |-> TRUE, text |-> <<>>]

BackendText(t) == [err |-> FALSE, text |-> t]

\* range(self.max_retries + 2)
AttemptRange_OneMore(retries) == 0..(retries + 1)

\* range(self.max_retries + 1)
AttemptRange(retries) == 0..retries

\* if parsed_data is not None:
ParsedOk_NotNone(parsed) == parsed.st = "value"

\* An empty object counts as data.
ParsedOk_EmptyObjectToo(parsed) ==
    parsed.st = "value" /\ (Truthy(parsed.v) \/ parsed.v.k = "obj")

\* if parsed_data:
ParsedOk(parsed) == parsed.st = "value" /\ Truthy(parsed.v)

\* What one attempt gave: the backend raised ("error"), the extractor gave
\* None ("none") or an empty value ("empty"), or it gave data ("parsed").
AttemptKind(outcome) ==
    IF outcome.err THEN "error"
    ELSE LET parsed == extract_json_from_response(outcome.text) IN
         IF parsed.st = "raise" THEN "error"
         ELSE IF ParsedOk(parsed) THEN "parsed"
         ELSE IF parsed.st = "none" THEN "none"
         ELSE "empty"

\* A loop that gives up at the first response without data.
AfterAttempt_ParseFailureFatal(kind, att, retries) ==
    IF kind = "parsed" THEN "success"
    ELSE IF kind = "error" /\ att + 1 \in AttemptRange(retries) THEN "continue"
    ELSE "exhausted"

\* Where the loop goes after an attempt of the given kind.
AfterAttempt(kind, att, retries) ==
    IF kind = "parsed" THEN "success"
    ELSE IF att + 1 \in AttemptRange(retries) THEN "continue"
    ELSE "exhausted"

\* Lines 186-192.
SuccessResult(pass_type, data, raw) ==
    AnalysisResult(pass_type, TRUE, data, NoError,
                   IF raw # <<>> THEN SomeText(Truncate(raw)) ELSE NoText)

\* Lines 203-212; raw is the local raw_response, unset when no attempt
\* returned a response.
ExhaustedResult(pass_type, retries, raw) ==
    AnalysisResult(pass_type, FALSE, JObj(<<>>),
                   ErrorMsg("", "Failed after attempts", retries + 1),
                   IF raw.set THEN SomeText(Truncate(raw.text)) ELSE NoText)

-----------------------------------------------------------------------------
(* Inputs of a session.                                                     *)

\* Texts the backend may return.
ProseResponse == <<"sorry">>

EmptyObjectResponse == <<"{", "}">>

\* Here is the result: {"main_subjects":["dog"],"setting":{"type":"outdoor"}}
GoodResponse ==
    <<"here", " ", "{", "\"", "main_subjects", "\"", ":", "[", "\"", "dog", "\"", "]",
      ",", "\"", "setting", "\"", ":", "{", "\"", "type", "\"", ":", "\"", "outdoor",
      "\"", "}", "}">>

\* {"setting":1,"people":1}: an object whose fields do not have the
\* expected shapes.
OddShapeResponse ==
    <<"{", "\"", "setting", "\"", ":", "1", ",", "\"", "people", "\"", ":", "1", "}">>

\* [1]: valid JSON that is not an object.
ListResponse == <<"[", "1", "]">>

Responses ==
    {ProseResponse, EmptyObjectResponse, GoodResponse, OddShapeResponse, ListResponse}

BackendOutcomes == {BackendError} \cup {BackendText(t) : t \in Responses}

\* A text without JSON, one character longer than the sample.
LongProseResponse == [i \in 1..(RawSampleLen + 1) |-> "x"]

\* As many characters as the sample takes, then an object.
LongGoodResponse ==
    [i \in 1..RawSampleLen |-> "x"] \o <<"{", "\"", "a", "\"", ":", "1", "}">>

LongOutcomes == {BackendText(LongProseResponse), BackendText(LongGoodResponse)}

\* image_metadata: None, or a dict with the image's dimensions.
Metadatas ==
    {JNull, JObj(<<JMember(W("width"), JNum(4)), JMember(W("height"), JNum(3))>>)}

-----------------------------------------------------------------------------
(* The orchestrator: ComprehensiveImageAnalyzer.analyze.                    *)

\* ComprehensiveAnalysisResult(success=True)
NewResult ==
    [success |-> TRUE, content |-> JObj(<<>>), people |-> JObj(<<>>),
     quality |-> JObj(<<>>), context |-> JObj(<<>>), combined |-> JObj(<<>>),
     pass_results |-> <<>>, passes_completed |-> 0, passes_failed |-> 0,
     errors |-> <<>>]

\* A comprehensive run that takes the people pass before the content pass.
ModePasses_PeopleFirst(quick) ==
    IF quick THEN <<"quick">> ELSE <<"people", "content", "quality", "context">>

\* A comprehensive run that takes the content pass a second time at the end.
ModePasses_ContentAgain(quick) ==
    IF quick THEN <<"quick">>
    ELSE <<"content", "people", "quality", "context", "content">>

\* The passes of the analyzer's mode.
ModePasses(quick) == IF quick THEN <<"quick">> ELSE get_comprehensive_passes

\* Line 324: the for loop takes the next pass whatever the recorded result.
AfterRecord_StopOnFailure(pr) == IF pr.success THEN "next_pass" ELSE "finalize"

AfterRecord(pr) == "next_pass"

\* A handler that lets the exception leave analyze.
AnalyzeHandler_Reraise(r, e) == [pc |-> "raised", result |-> r]

\* A handler that records the error but leaves the success flag alone.
AnalyzeHandler_KeepSuccess(r, e) ==
    [pc |-> "finalize", result |-> [r EXCEPT !.errors = Append(@, ErrorMsg("", e, 0))]]

\* except Exception as e: the session is marked failed, str(e) is recorded
\* and analyze goes on to its last lines.
AnalyzeHandler(r, e) ==
    [pc |-> "finalize",
     result |-> [r EXCEPT !.success = FALSE,
                          !.errors = Append(@, ErrorMsg("", e, 0))]]

\* Success only when the content pass completed.
FinalSuccess_ContentOnly(r) ==
    IF \E i \in 1..Len(r.pass_results) :
           r.pass_results[i].pass_type \in {"content", "quick"} /\ r.pass_results[i].success
    THEN r.success
    ELSE FALSE

\* Lines 362-363.
FinalSuccess(r) == IF r.passes_completed = 0 THEN FALSE ELSE r.success

\* The quick pass counted without its result being appended.
RecordQuick_NotAppended(r, pr) ==
    IF pr.success
    THEN [r EXCEPT !.content = pr.data, !.combined = pr.data, !.passes_completed = 1]
    ELSE [r EXCEPT !.passes_failed = 1,
                   !.errors = Append(@, IF pr.error.set THEN pr.error
                                        ELSE ErrorMsg("", "Quick analysis failed", 0))]

\* The quick pass recorded with its data sent through the merger.
RecordQuick_ThroughMerger(r, pr) ==
    LET appended == [r EXCEPT !.pass_results = Append(@, pr)]
        merged == _combine_results("content" :> pr.data)
    IN  IF pr.success
        THEN [appended EXCEPT !.content = pr.data,
                              !.combined = IF merged.raised THEN JObj(<<>>)
                                           ELSE merged.v,
                              !.passes_completed = 1]
        ELSE [appended EXCEPT !.passes_failed = 1,
                              !.errors = Append(@, IF pr.error.set THEN pr.error
                                                   ELSE ErrorMsg("", "Quick analysis failed", 0))]

\* Lines 310-318: the quick pass is recorded.
RecordQuick(r, pr) ==
    LET appended == [r EXCEPT !.pass_results = Append(@, pr)] IN
    IF pr.success
    THEN [appended EXCEPT !.content = pr.data, !.combined = pr.data,
                          !.passes_completed = 1]
    ELSE [appended EXCEPT !.passes_failed = 1,
                          !.errors = Append(@, IF pr.error.set THEN pr.error
                                               ELSE ErrorMsg("", "Quick analysis failed", 0))]

\* A failed pass is counted but its error is not kept.
RecordComprehensive_ErrorDropped(r, pr) ==
    LET appended == [r EXCEPT !.pass_results = Append(@, pr)] IN
    IF pr.success
    THEN LET counted == [appended EXCEPT !.passes_completed = @ + 1] IN
         CASE pr.pass_type = "content" -> [counted EXCEPT !.content = pr.data]
           [] pr.pass_type = "people" -> [counted EXCEPT !.people = pr.data]
           [] pr.pass_type = "quality" -> [counted EXCEPT !.quality = pr.data]
           [] pr.pass_type = "context" -> [counted EXCEPT !.context = pr.data]
           [] OTHER -> counted
    ELSE [appended EXCEPT !.passes_failed = @ + 1]

\* A failed pass is recorded without being counted.
RecordComprehensive_FailureNotCounted(r, pr) ==
    LET appended == [r EXCEPT !.pass_results = Append(@, pr)] IN
    IF pr.success
    THEN [appended EXCEPT !.passes_completed = @ + 1]
    ELSE [appended EXCEPT !.errors = Append(@, [pr.error EXCEPT !.tag = pr.pass_type])]

\* Lines 331-349: a pass of the comprehensive run is recorded.
RecordComprehensive(r, pr) ==
    LET appended == [r EXCEPT !.pass_results = Append(@, pr)] IN
    IF pr.success
    THEN LET counted == [appended EXCEPT !.passes_completed = @ + 1] IN
         CASE pr.pass_type = "content" -> [counted EXCEPT !.content = pr.data]
           [] pr.pass_type = "people" -> [counted EXCEPT !.people = pr.data]
           [] pr.pass_type = "quality" -> [counted EXCEPT !.quality = pr.data]
           [] pr.pass_type = "context" -> [counted EXCEPT !.context = pr.data]
           [] OTHER -> counted
    ELSE [appended EXCEPT
              !.passes_failed = @ + 1,
              !.errors = IF pr.error.set
                         THEN Append(@, [pr.error EXCEPT !.tag = pr.pass_type])
                         ELSE @]

\* An accumulator that also takes the data of a failed pass.
Accumulate_FailedToo(previous, pass_type, pr) ==
    (pass_type :> pr.data) @@ previous

\* Lines 333-335: previous_analysis[pass_type] = pass_result.data, for a
\* pass that succeeded.
Accumulate(previous, pass_type, pr) ==
    IF pr.success THEN (pass_type :> pr.data) @@ previous ELSE previous

CurrentPass == ModePasses(quick_mode)[pass_index]

\* Lines 296-301: the result is created and the image is converted, which
\* may raise.
ConvertImage(converts) ==
    /\ pc = "start"
    /\ IF converts
       THEN /\ pc' = "next_pass"
            /\ UNCHANGED <<result, orch_error>>
       ELSE LET handled == AnalyzeHandler(result, "image") IN
            /\ pc' = handled.pc
            /\ result' = handled.result
            /\ orch_error' = "image"
    /\ UNCHANGED <<registryVars, trace, count_calls, quick_mode, enable_context_chaining, max_retries,
                   image_metadata, previous_analysis, pass_index, attempt,
                   prompt, raw_response, pass_result, calls, attempt_log, invocations,
                   pass_type_arg, options>>
    /\ UNCHANGED <<extractorVars, mergerVars, batchVars>>

\* The conversion of any image.
PrepareImage == \E converts \in BOOLEAN : ConvertImage(converts)

\* _run_single_pass is called for the next pass of the mode and builds its
\* prompt (lines 157-166), which may raise.  The quick pass is called
\* without previous_analysis.
BeginPass ==
    /\ pc = "next_pass"
    /\ pass_index <= Len(ModePasses(quick_mode))
    /\ LET built == BuildPrompt(CurrentPass, enable_context_chaining,
                                IF quick_mode THEN <<>> ELSE previous_analysis,
                                image_metadata)
       IN  IF built.raised
           THEN LET handled == AnalyzeHandler(result, "prompt") IN
                /\ pc' = handled.pc
                /\ result' = handled.result
                /\ orch_error' = "prompt"
                /\ UNCHANGED <<prompt, pass_type_arg, options>>
           ELSE /\ pc' = "attempt"
                /\ prompt' = built.prompt
                /\ pass_type_arg' = CurrentPass
                /\ options' = GenerationOptions(CurrentPass)
                /\ UNCHANGED <<result, orch_error>>
    /\ UNCHANGED <<registryVars, trace, count_calls, quick_mode, enable_context_chaining, max_retries,
                   image_metadata, previous_analysis, pass_index, attempt,
                   raw_response, pass_result, calls, attempt_log, invocations>>
    /\ UNCHANGED <<extractorVars, mergerVars, batchVars>>

\* One iteration of the retry loop (lines 168-201) and, when the loop ends,
\* the construction of the AnalysisResult (lines 186-192 or 203-212);
\* outcome is what the backend does on the call of this iteration.
AttemptGiving(outcome) ==
    /\ pc = "attempt"
    /\ LET kind == AttemptKind(outcome)
           raw == IF outcome.err THEN raw_response ELSE SomeText(outcome.text)
           after == AfterAttempt(kind, attempt, max_retries)
       IN  /\ calls' = calls + 1
           /\ attempt_log' = IF trace THEN Append(attempt_log, kind)
                              ELSE attempt_log
           /\ invocations' = IF count_calls THEN invocations + 1 ELSE invocations
           /\ raw_response' = raw
           /\ CASE after = "success" ->
                     /\ pass_result' = SuccessResult(pass_type_arg,
                            extract_json_from_response(outcome.text).v,
                            outcome.text)
                     /\ pc' = "record"
                     /\ UNCHANGED attempt
                [] after = "continue" ->
                     /\ attempt' = attempt + 1
                     /\ UNCHANGED <<pass_result, pc>>
                [] OTHER ->
                     /\ pass_result' = ExhaustedResult(pass_type_arg, max_retries, raw)
                     /\ pc' = "record"
                     /\ UNCHANGED attempt
    /\ UNCHANGED <<registryVars, trace, count_calls, quick_mode, enable_context_chaining, max_retries,
                   image_metadata, result, previous_analysis, pass_index,
                   prompt, orch_error, pass_type_arg, options>>
    /\ UNCHANGED <<extractorVars, mergerVars, batchVars>>

\* An iteration of the retry loop with a backend that may do anything.
Attempt == \E outcome \in BackendOutcomes : AttemptGiving(outcome)

\* The AnalysisResult is recorded in the session (lines 310-318, 331-349);
\* the locals of the _run_single_pass call that returned it are gone.
RecordPass ==
    /\ pc = "record"
    /\ IF quick_mode
       THEN /\ result' = RecordQuick(result, pass_result)
            /\ pc' = "finalize"
            /\ UNCHANGED previous_analysis
       ELSE /\ result' = RecordComprehensive(result, pass_result)
            /\ pc' = AfterRecord(pass_result)
            /\ previous_analysis' =
                   Accumulate(previous_analysis, CurrentPass, pass_result)
    /\ pass_index' = pass_index + 1
    /\ attempt' = 0
    /\ raw_response' = NoText
    /\ pass_result' = NoPassResult
    /\ calls' = 0
    /\ attempt_log' = <<>>
    /\ UNCHANGED invocations
    /\ prompt' = Prompt("", <<>>)
    /\ pass_type_arg' = ""
    /\ options' = NoOptions
    /\ UNCHANGED <<registryVars, trace, count_calls, quick_mode, enable_context_chaining, max_retries,
                   image_metadata, orch_error>>
    /\ UNCHANGED <<extractorVars, mergerVars, batchVars>>

\* A merge of the content data alone.
MergeInput_ContentOnly(previous) ==
    [name \in DOMAIN previous \cap {"content"} |-> previous[name]]

\* Line 352: _combine_results is handed the context accumulator.
MergeInput(previous) == previous

\* Line 352: the results of the comprehensive run are combined, which may
\* raise.
Combine ==
    /\ pc = "next_pass"
    /\ ~quick_mode
    /\ pass_index > Len(ModePasses(quick_mode))
    /\ LET merged == _combine_results(MergeInput(previous_analysis)) IN
       IF merged.raised
       THEN LET handled == AnalyzeHandler(result, "merge") IN
            /\ pc' = handled.pc
            /\ result' = handled.result
            /\ orch_error' = "merge"
       ELSE /\ pc' = "finalize"
            /\ result' = [result EXCEPT !.combined = merged.v]
            /\ UNCHANGED orch_error
    /\ UNCHANGED <<registryVars, trace, count_calls, quick_mode, enable_context_chaining, max_retries,
                   image_metadata, previous_analysis, pass_index, attempt,
                   prompt, raw_response, pass_result, calls, attempt_log, invocations,
                   pass_type_arg, options>>
    /\ UNCHANGED <<extractorVars, mergerVars, batchVars>>

\* Lines 359-371: the success flag is settled and the session is returned.
Finish ==
    /\ pc = "finalize"
    /\ result' = [result EXCEPT !.success = FinalSuccess(result)]
    /\ pc' = "returned"
    /\ UNCHANGED <<registryVars, trace, count_calls, quick_mode, enable_context_chaining, max_retries,
                   image_metadata, previous_analysis, pass_index, attempt,
                   prompt, raw_response, pass_result, calls, attempt_log, invocations,
                   orch_error, pass_type_arg, options>>
    /\ UNCHANGED <<extractorVars, mergerVars, batchVars>>

\* The extractor is not running.
ExtractorIdle ==
    /\ text = <<>>
    /\ extracted = ExtractNone
    /\ xpc = "idle"
    /\ remaining = <<>>
    /\ rescans = 0

\* The merger is not called on its own.
MergerIdle ==
    /\ results_arg = <<>>
    /\ combined = Returned(JNull)
    /\ mpc = "idle"

\* analyze_batch is not called.
BatchIdle ==
    /\ images = <<>>
    /\ max_concurrent = 1
    /\ batch_results = <<>>
    /\ image_at = 1
    /\ bpc = "idle"

\* No session is running.
AnalyzerIdle ==
    /\ quick_mode = FALSE
    /\ enable_context_chaining = TRUE
    /\ max_retries = 0
    /\ image_metadata = JNull
    /\ result = NewResult
    /\ previous_analysis = <<>>
    /\ pc = "idle"
    /\ pass_index = 1
    /\ attempt = 0
    /\ prompt = Prompt("", <<>>)
    /\ raw_response = NoText
    /\ pass_result = NoPassResult
    /\ calls = 0
    /\ attempt_log = <<>>
    /\ invocations = 0
    /\ trace = FALSE
    /\ count_calls = FALSE
    /\ pass_type_arg = ""
    /\ options = NoOptions
    /\ orch_error = "none"

\* analyze is called on an analyzer of any configuration.
CallAnalyze ==
    /\ quick_mode \in BOOLEAN
    /\ enable_context_chaining \in BOOLEAN
    /\ max_retries \in 0..MaxRetriesBound
    /\ image_metadata \in Metadatas
    /\ result = NewResult
    /\ previous_analysis = <<>>
    /\ pc = "start"
    /\ pass_index = 1
    /\ attempt = 0
    /\ prompt = Prompt("", <<>>)
    /\ raw_response = NoText
    /\ pass_result = NoPassResult
    /\ calls = 0
    /\ attempt_log = <<>>
    /\ invocations = 0
    /\ pass_type_arg = ""
    /\ options = NoOptions
    /\ orch_error = "none"

\* The registry after prompts.py is imported.
RegistryCreated == registry = PROMPTS

Init ==
    /\ RegistryCreated
    /\ ExtractorIdle
    /\ MergerIdle
    /\ BatchIdle
    /\ CallAnalyze
    /\ trace = FALSE
    /\ count_calls = FALSE

Next ==
    \/ PrepareImage
    \/ BeginPass
    \/ Attempt
    \/ RecordPass
    \/ Combine
    \/ Finish

Spec == Init /\ [][Next]_vars

-----------------------------------------------------------------------------
(* The pass executor on its own: a session is followed until the           *)
(* _run_single_pass call for its first pass (content, or quick) returns,    *)
(* and what each attempt of the retry loop gave is kept in attempt_log.     *)

InitPass ==
    /\ RegistryCreated
    /\ ExtractorIdle
    /\ MergerIdle
    /\ BatchIdle
    /\ CallAnalyze
    /\ trace = TRUE
    /\ count_calls = FALSE

NextPass ==
    \/ PrepareImage
    \/ BeginPass
    \/ Attempt

SpecPass == InitPass /\ [][NextPass]_vars

-----------------------------------------------------------------------------
(* The pass executor called on its own: _run_single_pass is given any pass  *)
(* identifier, registered or not, with or without previous results.         *)

\* Values of the argument pass_type: the registered identifiers and one
\* that is not registered.
PassTypeArgs == DOMAIN PROMPTS \cup {"unknown"}

\* Values of the argument previous_analysis: None or {} (both are falsy),
\* or the data of a content pass.
PreviousArgs ==
    { <<>>,
      "content" :> JObj(<<JMember(W("main_subjects"), JArr(<<JStr(W("dog"))>>))>>) }

InitRun ==
    /\ RegistryCreated
    /\ ExtractorIdle
    /\ MergerIdle
    /\ BatchIdle
    /\ quick_mode \in BOOLEAN
    /\ enable_context_chaining \in BOOLEAN
    /\ max_retries \in 0..MaxRetriesBound
    /\ image_metadata \in Metadatas
    /\ result = NewResult
    /\ previous_analysis \in PreviousArgs
    /\ pc = "call_pass"
    /\ pass_index = 1
    /\ attempt = 0
    /\ prompt = Prompt("", <<>>)
    /\ raw_response = NoText
    /\ pass_result = NoPassResult
    /\ calls = 0
    /\ attempt_log = <<>>
    /\ invocations = 0
    /\ trace \in BOOLEAN
    /\ count_calls = FALSE
    /\ pass_type_arg \in PassTypeArgs
    /\ options = NoOptions
    /\ orch_error = "none"

\* Lines 157-166 of a call that no handler surrounds: the prompt and the
\* options are set up; an exception leaves _run_single_pass.
RunSinglePass ==
    /\ pc = "call_pass"
    /\ LET built == BuildPrompt(pass_type_arg, enable_context_chaining,
                                previous_analysis, image_metadata)
       IN  IF built.raised
           THEN /\ pc' = "raised"
                /\ UNCHANGED <<prompt, options>>
           ELSE /\ pc' = "attempt"
                /\ prompt' = built.prompt
                /\ options' = GenerationOptions(pass_type_arg)
    /\ UNCHANGED <<registryVars, trace, count_calls, quick_mode, enable_context_chaining,
                   max_retries, image_metadata, result, previous_analysis,
                   pass_index, attempt, raw_response, pass_result, calls,
                   attempt_log, invocations, pass_type_arg, orch_error>>
    /\ UNCHANGED <<extractorVars, mergerVars, batchVars>>

\* An iteration of the retry loop in which the backend returns a text
\* longer than the sample kept of it.
AttemptLong == \E outcome \in LongOutcomes : AttemptGiving(outcome)

NextRun ==
    \/ RunSinglePass
    \/ Attempt
    \/ AttemptLong

SpecRun == InitRun /\ [][NextRun]_vars

-----------------------------------------------------------------------------
(* The extractor on its own: it is called on every input text.              *)

InitExtract ==
    /\ RegistryCreated
    /\ BatchIdle
    /\ AnalyzerIdle
    /\ MergerIdle
    /\ text \in InputTexts(MaxFrags) \cup QuotedBraceTexts \cup GroupTexts
    /\ extracted = ExtractNone
    /\ xpc = "call"
    /\ remaining = text
    /\ rescans = 0

CallExtract ==
    /\ xpc = "call"
    /\ extracted' = extract_json_from_response(text)
    /\ xpc' = "done"
    /\ UNCHANGED <<text, remaining, rescans>>
    /\ UNCHANGED <<analyzerVars, mergerVars, registryVars, batchVars>>

NextExtract == CallExtract

SpecExtract == InitExtract /\ [][NextExtract]_vars

-----------------------------------------------------------------------------
(* The extractor followed call by call: each step is one call of            *)
(* extract_json_from_response, the outermost on the input text and every    *)
(* recursive one on the remainder the call before it left.  A call that     *)
(* has started runs to its return or to its recursive call.                 *)

InitRescan ==
    /\ RegistryCreated
    /\ BatchIdle
    /\ AnalyzerIdle
    /\ MergerIdle
    /\ text \in InputTexts(MaxFrags - 1) \cup GroupTexts
    /\ extracted = ExtractNone
    /\ xpc = "call"
    /\ remaining = text
    /\ rescans = 0

ExtractStep ==
    /\ xpc = "call"
    /\ LET call == OneCall(remaining) IN
       IF call.returns
       THEN /\ extracted' = call.outcome
            /\ xpc' = "done"
            /\ UNCHANGED <<remaining, rescans>>
       ELSE /\ remaining' = call.rest
            /\ rescans' = rescans + 1
            /\ UNCHANGED <<extracted, xpc>>
    /\ UNCHANGED text
    /\ UNCHANGED <<analyzerVars, mergerVars, registryVars, batchVars>>

NextRescan == ExtractStep

\* A call is running.
Running == xpc = "call"

\* Weak fairness of the step, WF_vars(NextRescan), with the enabling
\* condition of the step written out: a step is possible exactly while a
\* call is running, and a running call takes its next step.
SpecRescan ==
    /\ InitRescan
    /\ [][NextRescan]_vars
    /\ ([]<>(~Running) \/ []<><<NextRescan>>_vars)

-----------------------------------------------------------------------------
(* The merger on its own: _combine_results is called, twice in a row, on a  *)
(* mapping from any subset of the four passes to pass data.                 *)

Str(word) == JStr(W(word))

Field(key, value) == JMember(W(key), value)

\* Data of the content pass: every field, main_subjects only, nothing, or a
\* list in place of the object.
ContentDatas ==
    { JObj(<<Field("main_subjects", JArr(<<Str("dog")>>)),
             Field("setting", JObj(<<Field("type", Str("outdoor"))>>)),
             Field("description", Str("park")),
             Field("activities", JArr(<<Str("run")>>))>>),
      JObj(<<Field("main_subjects", JArr(<<Str("dog")>>))>>),
      JObj(<<>>),
      JArr(<<JNum(1)>>) }

\* Data of the people pass: every field, a person without emotion and no
\* group_dynamics, nothing, or an entry of people that is not an object.
PeopleDatas ==
    { JObj(<<Field("has_people", JBool(TRUE)),
             Field("people_count", JNum(1)),
             Field("group_dynamics", JObj(<<Field("type", Str("solo"))>>)),
             Field("people", JArr(<<JObj(<<Field("emotion", Str("happy"))>>)>>))>>),
      JObj(<<Field("has_people", JBool(TRUE)),
             Field("people_count", JNum(2)),
             Field("people", JArr(<<JObj(<<Field("emotion", Str("happy"))>>),
                                    JObj(<<Field("age", JNum(1))>>)>>))>>),
      JObj(<<>>),
      JObj(<<Field("has_people", JBool(TRUE)),
             Field("people_count", JNum(1)),
             Field("group_dynamics", JObj(<<>>)),
             Field("people", JArr(<<JNum(1)>>))>>) }

\* Data of the quality pass: every field, no score, no overall_quality,
\* nothing, or an overall_quality that is not an object.
QualityDatas ==
    { JObj(<<Field("overall_quality",
                   JObj(<<Field("tier", Str("good")), Field("score", JNum(8))>>)),
             Field("technical_issues", JArr(<<Str("blur")>>))>>),
      JObj(<<Field("overall_quality", JObj(<<Field("tier", Str("good"))>>))>>),
      JObj(<<Field("technical_issues", JArr(<<>>))>>),
      JObj(<<>>),
      JObj(<<Field("overall_quality", JNum(1))>>) }

\* Data of the context pass: every field, tags and one attribute only,
\* nothing, or special_attributes that is not an object.
ContextDatas ==
    { JObj(<<Field("suggested_tags", JArr(<<Str("pet"), Str("outdoor")>>)),
             Field("searchable_keywords", JArr(<<Str("dog")>>)),
             Field("suggested_albums", JArr(<<Str("pets")>>)),
             Field("occasion", JObj(<<Field("type", Str("walk"))>>)),
             Field("temporal", JObj(<<Field("season", Str("summer"))>>)),
             Field("special_attributes",
                   JObj(<<Field("is_screenshot", JBool(FALSE)),
                          Field("is_document", JBool(FALSE)),
                          Field("is_selfie", JBool(TRUE))>>))>>),
      JObj(<<Field("suggested_tags", JArr(<<Str("pet"), Str("outdoor")>>)),
             Field("special_attributes", JObj(<<Field("is_selfie", JBool(FALSE))>>))>>),
      JObj(<<>>),
      JObj(<<Field("special_attributes", JNum(1))>>) }

PassDatas(pass_type) ==
    CASE pass_type = "content" -> ContentDatas
      [] pass_type = "people" -> PeopleDatas
      [] pass_type = "quality" -> QualityDatas
      [] pass_type = "context" -> ContextDatas

\* The mappings from some of the four passes to data of that pass.
MergeInputs ==
    UNION { {m \in [passes -> ContentDatas \cup PeopleDatas \cup QualityDatas
                                  \cup ContextDatas] :
                \A pass_type \in passes : m[pass_type] \in PassDatas(pass_type)} :
            passes \in SUBSET {"content", "people", "quality", "context"} }

\* The mapping handed to _combine_results as the call leaves it with a pass
\* taken out of it.
ResultsAfterCombine_Consumed(mapping) ==
    [pass_type \in DOMAIN mapping \ {"content"} |-> mapping[pass_type]]

\* The mapping handed to _combine_results as the call leaves it: its
\* entries are read with .get and never assigned.
ResultsAfterCombine(mapping) == mapping

InitMerge ==
    /\ RegistryCreated
    /\ BatchIdle
    /\ ExtractorIdle
    /\ AnalyzerIdle
    /\ results_arg \in MergeInputs
    /\ combined = Returned(JNull)
    /\ mpc = "call"

CallMerge ==
    /\ mpc \in {"call", "once"}
    /\ combined' = _combine_results(results_arg)
    /\ results_arg' = ResultsAfterCombine(results_arg)
    /\ mpc' = IF mpc = "call" THEN "once" ELSE "twice"
    /\ UNCHANGED <<extractorVars, analyzerVars, registryVars, batchVars>>

NextMerge == CallMerge

SpecMerge == InitMerge /\ [][NextMerge]_vars

-----------------------------------------------------------------------------
(* analyze_batch: an analyzer of any configuration is handed a list of      *)
(* images.  What the image conversion and the backend do during a session   *)
(* is fixed by the image the session is for.                                *)

MaxBatch == 3

\* Values of max_concurrent.
Concurrencies == {1, 2}

\* An element of images: the metadata that comes with the image, whether
\* the image converts, and how the backend answers for it.
Image(converts, metadata, backend) ==
    [converts |-> converts, metadata |-> metadata, backend |-> backend]

\* An image every pass succeeds on; one with a people pass that always
\* fails and a first answer without JSON in the other passes; one whose
\* content data has an unexpected shape; one that does not convert.
Images ==
    { Image(TRUE, JNull, "clear"),
      Image(TRUE, JObj(<<JMember(W("width"), JNum(4)),
                         JMember(W("height"), JNum(3))>>), "flaky"),
      Image(TRUE, JNull, "odd"),
      Image(FALSE, JNull, "clear") }

\* What generate does on the call of attempt att of pass name for the image.
BackendFor(image, name, att) ==
    CASE image.backend = "clear" -> BackendText(GoodResponse)
      [] image.backend = "flaky" ->
            IF name = "people" THEN BackendError
            ELSE IF att = 0 THEN BackendText(ProseResponse)
            ELSE BackendText(GoodResponse)
      [] OTHER ->
            IF name \in {"content", "quick"} THEN BackendText(OddShapeResponse)
            ELSE BackendText(EmptyObjectResponse)

\* The lists of at most MaxBatch images.
Batches == UNION {[1..n -> Images] : n \in 0..MaxBatch}

\* A list of results that keeps the sessions that succeeded only.
AppendSession_SuccessfulOnly(results, session) ==
    IF session.success THEN Append(results, session) ELSE results

\* Line 392: results.append(result)
AppendSession(results, session) == Append(results, session)

\* An accumulator that outlives the session it was filled in.
NewAccumulator_Kept == previous_analysis

\* Line 322: previous_analysis = {}
NewAccumulator == <<>>

InitBatch ==
    /\ RegistryCreated
    /\ ExtractorIdle
    /\ MergerIdle
    /\ quick_mode \in BOOLEAN
    /\ enable_context_chaining \in BOOLEAN
    /\ max_retries \in 0..MaxRetriesBound
    /\ image_metadata = JNull
    /\ result = NewResult
    /\ previous_analysis = <<>>
    /\ pc = "idle"
    /\ pass_index = 1
    /\ attempt = 0
    /\ prompt = Prompt("", <<>>)
    /\ raw_response = NoText
    /\ pass_result = NoPassResult
    /\ calls = 0
    /\ attempt_log = <<>>
    /\ invocations = 0
    /\ trace = FALSE
    /\ count_calls = FALSE
    /\ pass_type_arg = ""
    /\ options = NoOptions
    /\ orch_error = "none"
    /\ images \in Batches
    /\ max_concurrent \in Concurrencies
    /\ batch_results = <<>>
    /\ image_at = 1
    /\ bpc = "loop"

\* Line 391: analyze is called for the next image of the list; the call
\* has its own result and locals (lines 297, 322).
BatchAnalyze ==
    /\ bpc = "loop"
    /\ image_at <= Len(images)
    /\ bpc' = "session"
    /\ image_metadata' = images[image_at].metadata
    /\ result' = NewResult
    /\ previous_analysis' = NewAccumulator
    /\ pc' = "start"
    /\ pass_index' = 1
    /\ attempt' = 0
    /\ prompt' = Prompt("", <<>>)
    /\ raw_response' = NoText
    /\ pass_result' = NoPassResult
    /\ calls' = 0
    /\ attempt_log' = <<>>
    /\ invocations' = 0
    /\ pass_type_arg' = ""
    /\ options' = NoOptions
    /\ orch_error' = "none"
    /\ UNCHANGED <<quick_mode, enable_context_chaining, max_retries, trace, count_calls>>
    /\ UNCHANGED <<images, max_concurrent, batch_results, image_at>>
    /\ UNCHANGED <<extractorVars, mergerVars, registryVars>>

\* Line 301 in a session of the batch.
BatchPrepareImage ==
    /\ bpc = "session"
    /\ ConvertImage(images[image_at].converts)

\* An iteration of the retry loop in a session of the batch.
BatchAttempt ==
    /\ bpc = "session"
    /\ AttemptGiving(BackendFor(images[image_at], pass_type_arg, attempt))

\* Line 392: the session analyze returned is appended to results, and the
\* loop goes on to the next image.
BatchAppend ==
    /\ bpc = "session"
    /\ pc = "returned"
    /\ batch_results' = AppendSession(batch_results, result)
    /\ image_at' = image_at + 1
    /\ bpc' = "loop"
    /\ pc' = "idle"
    /\ UNCHANGED <<quick_mode, enable_context_chaining, max_retries,
                   image_metadata, result, previous_analysis, pass_index,
                   attempt, prompt, raw_response, pass_result, calls,
                   attempt_log, invocations, trace, count_calls, pass_type_arg, options, orch_error>>
    /\ UNCHANGED <<images, max_concurrent>>
    /\ UNCHANGED <<extractorVars, mergerVars, registryVars>>

\* Line 393: return results
BatchReturn ==
    /\ bpc = "loop"
    /\ image_at > Len(images)
    /\ bpc' = "returned"
    /\ UNCHANGED <<images, max_concurrent, batch_results, image_at>>
    /\ UNCHANGED <<analyzerVars, extractorVars, mergerVars, registryVars>>

NextBatch ==
    \/ BatchAnalyze
    \/ BatchPrepareImage
    \/ BeginPass
    \/ BatchAttempt
    \/ RecordPass
    \/ Combine
    \/ Finish
    \/ BatchAppend
    \/ BatchReturn

SpecBatch == InitBatch /\ [][NextBatch]_vars

-----------------------------------------------------------------------------
(* Properties of the orchestrator and the pass executor, checked under      *)
(* Spec.                                                                    *)

PassTypes(results) == [i \in 1..Len(results) |-> results[i].pass_type]

Comprehensive == ~quick_mode

\* C1: analyze never raises to its caller: whatever the backend does in
\* each attempt, and also when the image conversion, the construction of a
\* prompt or the merge raises, the session goes on to be returned, and the
\* returned result carries a success flag and a list of errors.  (Every
\* position before "returned" has a next step: the first three conjuncts.)
C1_AnalyzeNeverRaises ==
    /\ pc \in {"start", "next_pass", "attempt", "record", "finalize", "returned"}
    /\ pc = "next_pass" =>
          /\ pass_index \in 1..(Len(ModePasses(quick_mode)) + 1)
          /\ quick_mode => pass_index = 1
    /\ pc \in {"attempt", "record"} => pass_index \in 1..Len(ModePasses(quick_mode))
    /\ pc = "returned" =>
          /\ result.success \in BOOLEAN
          /\ \A i \in 1..Len(result.errors) : result.errors[i].set

C1_Witness ==
    /\ pc = "returned"
    /\ orch_error = "prompt"
    /\ result.passes_completed = 1

\* C2 as stated: in comprehensive mode, once the image is converted, all
\* four passes are executed whatever the outcome of each pass.
C2_AllPassesRunWhateverTheOutcome ==
    (pc = "returned" /\ Comprehensive /\ orch_error # "image")
        => PassTypes(result.pass_results) = get_comprehensive_passes

\* C2 amended: in comprehensive mode a failed pass does not halt the
\* pipeline.  Unless the image conversion or the construction of a prompt
\* raises, the four passes content, people, quality, context are executed,
\* each exactly once and in this order; a prompt construction raises only
\* after a content pass that succeeded; so when the content pass exhausts
\* its retries the people, quality and context passes still run.
C2_FailedPassDoesNotHalt ==
    /\ (pc = "returned" /\ Comprehensive /\ orch_error \notin {"image", "prompt"})
          => PassTypes(result.pass_results) = get_comprehensive_passes
    /\ (Comprehensive /\ orch_error = "prompt")
          => /\ Len(result.pass_results) >= 1
             /\ result.pass_results[1].success
    /\ (pc = "returned" /\ Comprehensive /\ Len(result.pass_results) >= 1
           /\ ~result.pass_results[1].success)
          => PassTypes(result.pass_results) = get_comprehensive_passes

C2_Witness ==
    /\ pc = "returned"
    /\ Comprehensive
    /\ Len(result.pass_results) = 4
    /\ ~result.pass_results[1].success
    /\ ~result.pass_results[2].success
    /\ result.pass_results[3].success

\* C3 as stated: for every returned session passes_completed +
\* passes_failed is the number of passes of the mode, 4 or 1.
C3_CountsEqualModePasses ==
    pc = "returned" =>
        result.passes_completed + result.passes_failed = Len(ModePasses(quick_mode))

\* C3 amended: for every returned session passes_completed + passes_failed
\* is the number of passes executed, at most 4 in comprehensive mode and at
\* most 1 in quick mode; it equals 4, respectively 1, unless the image
\* conversion or the construction of a prompt raised.
C3_CountsEqualPassesExecuted ==
    pc = "returned" =>
        /\ result.passes_completed + result.passes_failed = Len(result.pass_results)
        /\ Len(result.pass_results) <= Len(ModePasses(quick_mode))
        /\ orch_error \notin {"image", "prompt"} =>
              result.passes_completed + result.passes_failed
                  = Len(ModePasses(quick_mode))

C3_Witness ==
    /\ pc = "returned"
    /\ Comprehensive
    /\ orch_error = "none"
    /\ result.passes_completed = 2
    /\ result.passes_failed = 2

C5_OrchestrationErrorFailsSession ==
    (pc = "returned" /\ orch_error # "none")
        => /\ ~result.success
           /\ result.errors # <<>>
           /\ result.errors[Len(result.errors)] = ErrorMsg("", orch_error, 0)

C5_Witness ==
    /\ pc = "returned"
    /\ orch_error = "merge"
    /\ result.passes_completed > 0

\* The first attempt of the current pass that gave data, 0 when none did.
FirstParsed ==
    IF \E i \in 1..Len(attempt_log) : attempt_log[i] = "parsed"
    THEN CHOOSE i \in 1..Len(attempt_log) :
             /\ attempt_log[i] = "parsed"
             /\ \A h \in 1..(i - 1) : attempt_log[h] # "parsed"
    ELSE 0

\* C6: the retry count is respected: a pass invokes the backend at most
\* max_retries + 1 times, once per attempt; if the first attempt whose
\* response yields data is attempt k, the backend was invoked exactly k
\* times, the loop has ended and the result has success = true; the loop
\* makes no attempt after it.
C6_RetryCountRespected ==
    /\ calls <= max_retries + 1
    /\ calls = Len(attempt_log)
    /\ pc = "attempt" => FirstParsed = 0
    /\ FirstParsed # 0 =>
          /\ pc = "record"
          /\ calls = FirstParsed
          /\ pass_result.success

C6_Witness ==
    /\ pc = "record"
    /\ max_retries = 2
    /\ attempt_log = <<"error", "none", "parsed">>
    /\ calls = 3
    /\ pass_result.success

\* C7: a response without data and a backend error are treated alike by
\* the retry loop: when every attempt of a pass was a backend error or an
\* extraction failure, in any mix and order, the pass ends after exactly
\* max_retries + 1 attempts and backend invocations, with success = false,
\* empty data and an error set.
C7_FailuresConsumeOneAttemptEach ==
    (pc = "record" /\ FirstParsed = 0)
        => /\ Len(attempt_log) = max_retries + 1
           /\ calls = max_retries + 1
           /\ ~pass_result.success
           /\ pass_result.data = JObj(<<>>)
           /\ pass_result.error.set

C7_Witness ==
    /\ pc = "record"
    /\ attempt_log = <<"none", "error", "empty">>
    /\ ~pass_result.success

\* The invariant of one AnalysisResult.
PassResultOk(pr) ==
    /\ pr.success =>
          /\ Truthy(pr.data)
          /\ pr.raw_response.set
          /\ extract_json_from_response(pr.raw_response.text) = ExtractValue(pr.data)
    /\ ~pr.success =>
          /\ pr.data = JObj(<<>>)
          /\ pr.error.set

\* C8: every AnalysisResult the pass executor returns satisfies: success =
\* true implies its data is not empty and is what the extractor returns
\* for the response of the attempt that ended the loop; success = false
\* implies empty data and an error set.
C8_PassResultInvariant ==
    pc = "record" =>
        /\ PassResultOk(pass_result)
        /\ pass_result.success =>
              extract_json_from_response(raw_response.text)
                  = ExtractValue(pass_result.data)

C8_Witness ==
    /\ pc = "record"
    /\ pass_result.success
    /\ attempt_log = <<"empty", "parsed">>

-----------------------------------------------------------------------------
(* Properties of the extractor, checked under SpecExtract.                  *)

C10_ExtractedIsMapping ==
    (xpc = "done" /\ extracted.st = "value") => IsDict(extracted.v)

\* t[i..j] is a syntactically valid JSON object.
ObjectAt(t, i, j) ==
    /\ t[i] = "{"
    /\ t[j] = "}"
    /\ LET parsed == Loads(SubSeq(t, i, j)) IN parsed.ok /\ IsDict(parsed.v)

\* The places of the valid objects of t that lie inside no other one.
TopLevelObjects(t) ==
    LET objects == {p \in (1..Len(t)) \X (1..Len(t)) : ObjectAt(t, p[1], p[2])}
    IN  {p \in objects :
            \A q \in objects : (q[1] <= p[1] /\ p[2] <= q[2]) => q = p}

\* C11: a text that is not as a whole a JSON value and contains exactly one
\* syntactically valid top-level object, with any prose before and after
\* it (quote characters and stray braces included), gives that object's
\* parsed value.
C11_SoleObjectReturned ==
    (/\ xpc = "done"
     /\ ~Loads(Strip(text)).ok
     /\ Cardinality(TopLevelObjects(text)) = 1)
        => LET p == CHOOSE q \in TopLevelObjects(text) : TRUE IN
           extracted = ExtractValue(Loads(SubSeq(text, p[1], p[2])).v)

\* The text is not as a whole a JSON value, has an opening brace, and the
\* depth counted from its first opening brace never returns to zero.
Unbalanced(t) ==
    /\ t # <<>>
    /\ ~Loads(Strip(t)).ok
    /\ Find(t, "{") # 0
    /\ BraceScan(t, Find(t, "{"), ScanStart) = 0

\* The places of the one-level brace groups of t: an opening brace, at
\* least one character that is not a brace, a closing brace.
SimpleGroups(t) ==
    {p \in (1..Len(t)) \X (1..Len(t)) : PatternAt(t, p[1], p[2])}

\* C12 as stated: a text whose only candidate object is unbalanced or
\* truncated gives failure, also when the truncated candidate contains a
\* complete nested one-level object.
C12_UnbalancedGivesFailure ==
    (xpc = "done" /\ Unbalanced(text)) => extracted = ExtractNone

\* C12 amended: a text whose only candidate object is unbalanced or
\* truncated gives failure, unless it contains a complete one-level brace
\* group: then the leftmost such group decides, its parsed value is
\* returned when it is valid JSON and failure when it is not.
C12_UnbalancedGivesFailureOrSimpleGroup ==
    (xpc = "done" /\ Unbalanced(text)) =>
        LET groups == SimpleGroups(text) IN
        IF groups = {} THEN extracted = ExtractNone
        ELSE LET p == CHOOSE q \in groups : \A r \in groups : q[1] <= r[1]
                 parsed == Loads(SubSeq(text, p[1], p[2]))
             IN  extracted = IF parsed.ok THEN ExtractValue(parsed.v)
                             ELSE ExtractNone

\* A truncated object that holds a complete one-level object.
C12_Witness ==
    /\ xpc = "done"
    /\ text = <<"{", "{", "\"", "a", "\"", ":", "1", "}">>
    /\ Unbalanced(text)
    /\ extracted = ExtractValue(JObj(<<JMember(<<"a">>, JNum(1))>>))

\* The locals of the brace scan after the characters t[i..k].
RECURSIVE ScanTo(_, _, _)
ScanTo(t, i, k) ==
    IF k < i THEN ScanStart ELSE ScanStep(ScanTo(t, i, k - 1), t[k])

\* A brace stands between the two braces of t[i..j].
BraceInside(t, i, j) == \E h \in (i + 1)..(j - 1) : ~NotBrace(t[h])

\* No value of the object is itself an object or an array.
OneLevel(object) ==
    \A m \in 1..Len(object.c) : object.c[m].c[1].k \notin {"obj", "arr"}

\* C13: braces inside a quoted string value do not affect balance
\* detection: when the text's first opening brace starts a valid object,
\* the scan ends at the object's real closing brace, for a one-level object
\* the depth counter stays at 1 up to there whatever braces its strings
\* hold, and the extractor returns the object intact when the text is not
\* as a whole a JSON value.
C13_QuotedBracesIgnored ==
    xpc = "done" =>
        LET i == Find(text, "{") IN
        \A j \in 1..Len(text) :
            (i # 0 /\ ObjectAt(text, i, j)) =>
                LET object == Loads(SubSeq(text, i, j)).v IN
                /\ BraceScan(text, i, ScanStart) = j
                /\ OneLevel(object) =>
                      \A k \in i..(j - 1) : ScanTo(text, i, k).brace_count = 1
                /\ ~Loads(Strip(text)).ok => extracted = ExtractValue(object)

\* {"a":"}\"{"} between a quote and a stray brace.
C13_Witness ==
    /\ xpc = "done"
    /\ text = <<"\"", "{", "\"", "a", "\"", ":", "\"", "}", "\\", "\"", "{", "\"", "}", "}">>
    /\ BraceInside(text, 2, 13)
    /\ extracted = ExtractValue(JObj(<<JMember(<<"a">>, JStr(<<"}", "\"", "{">>))>>))

\* The top-level brace groups of t from index from on, as the scan finds
\* them one after the other: each from the first opening brace after the
\* previous group to the brace that returns the depth to zero.
RECURSIVE BraceGroups(_, _)
BraceGroups(t, from) ==
    LET rest == SubSeq(t, from, Len(t))
        start == Find(rest, "{")
    IN  IF start = 0 THEN <<>>
        ELSE LET i == from + start - 1
                 j == BraceScan(t, i, ScanStart)
             IN  IF j = 0 THEN <<>> ELSE <<(<<i, j>>)>> \o BraceGroups(t, j + 1)

\* C14: when the text contains several top-level brace groups and one of
\* them is valid JSON, the extractor returns the parsed value of the first
\* group that is valid; the groups before it, balanced but not valid, are
\* skipped.
C14_FirstValidGroupReturned ==
    xpc = "done" =>
        LET groups == BraceGroups(text, 1)
            valid == {g \in 1..Len(groups) :
                         Loads(SubSeq(text, groups[g][1], groups[g][2])).ok}
        IN  (Len(groups) >= 2 /\ valid # {}) =>
                LET g == CHOOSE x \in valid : \A y \in valid : x <= y IN
                extracted = ExtractValue(
                    Loads(SubSeq(text, groups[g][1], groups[g][2])).v)

-----------------------------------------------------------------------------
(* Properties of the merger, checked under SpecMerge.                       *)

\* The _combine_results call has returned or raised.
Merged == mpc \in {"once", "twice"}

\* The data of a pass in the argument of the call, {} when it is absent.
ArgData(pass_type) == PassData(results_arg, pass_type)

\* field = value in the combined record.
Has(record, field, value) ==
    HasKey(record, W(field)) /\ Get(record, W(field), JNull) = value

\* C15: merging the empty per-pass mapping yields a combined record with
\* has_people = false, people_count = 0, quality_tier = "average",
\* tags = [], searchable_keywords = [] and is_screenshot = false.
C15_EmptyMappingDefaults ==
    (Merged /\ DOMAIN results_arg = {}) =>
        /\ ~combined.raised
        /\ Has(combined.v, "has_people", JBool(FALSE))
        /\ Has(combined.v, "people_count", JNum(0))
        /\ Has(combined.v, "quality_tier", Str("average"))
        /\ Has(combined.v, "tags", JArr(<<>>))
        /\ Has(combined.v, "searchable_keywords", JArr(<<>>))
        /\ Has(combined.v, "is_screenshot", JBool(FALSE))

\* The object d has every one of the fields.
HasFields(d, fields) == IsDict(d) /\ \A f \in fields : HasKey(d, W(f))

\* d[field], for a field the object d has.
At(d, field) == Get(d, W(field), JNull)

ContentFields == {"main_subjects", "setting", "description", "activities"}

PeopleFields == {"has_people", "people_count", "group_dynamics"}

ContextFields ==
    {"suggested_tags", "searchable_keywords", "suggested_albums", "occasion",
     "temporal", "special_attributes"}

Flags == {"is_screenshot", "is_document", "is_selfie"}

\* Every pass of the argument has the source fields of the field table.
SourceFieldsPresent ==
    /\ "content" \in DOMAIN results_arg => HasFields(ArgData("content"), ContentFields)
    /\ "people" \in DOMAIN results_arg => HasFields(ArgData("people"), PeopleFields)
    /\ "quality" \in DOMAIN results_arg =>
          /\ HasFields(ArgData("quality"), {"overall_quality", "technical_issues"})
          /\ HasFields(At(ArgData("quality"), "overall_quality"), {"tier", "score"})
    /\ "context" \in DOMAIN results_arg =>
          /\ HasFields(ArgData("context"), ContextFields)
          /\ HasFields(At(ArgData("context"), "special_attributes"), Flags)

\* The record reproduces the field table for the passes of the argument.
FieldMapping(record) ==
    LET summary == At(record, "summary") IN
    /\ "content" \in DOMAIN results_arg =>
          \A f \in ContentFields : Has(summary, f, At(ArgData("content"), f))
    /\ "people" \in DOMAIN results_arg =>
          /\ Has(record, "has_people", At(ArgData("people"), "has_people"))
          /\ Has(record, "people_count", At(ArgData("people"), "people_count"))
          /\ Has(summary, "group_dynamics", At(ArgData("people"), "group_dynamics"))
    /\ "quality" \in DOMAIN results_arg =>
          LET overall == At(ArgData("quality"), "overall_quality") IN
          /\ Has(record, "quality_tier", At(overall, "tier"))
          /\ Has(record, "quality_score", At(overall, "score"))
          /\ Has(summary, "technical_issues", At(ArgData("quality"), "technical_issues"))
    /\ "context" \in DOMAIN results_arg =>
          LET context == ArgData("context")
              special == At(context, "special_attributes")
          IN  /\ Has(record, "tags", At(context, "suggested_tags"))
              /\ Has(record, "searchable_keywords", At(context, "searchable_keywords"))
              /\ Has(record, "suggested_albums", At(context, "suggested_albums"))
              /\ Has(summary, "occasion", At(context, "occasion"))
              /\ Has(summary, "temporal", At(context, "temporal"))
              /\ \A f \in Flags : Has(record, f, At(special, f))

\* C16: for every per-pass mapping in which the source fields are present
\* the merge gives a record that reproduces the field table: the summary
\* fields, has_people, people_count, quality_tier, quality_score, tags,
\* searchable_keywords, suggested_albums and the three flags equal the
\* fields of the passes they come from.
C16_FieldMappingExact ==
    (Merged /\ DOMAIN results_arg # {} /\ SourceFieldsPresent) =>
        (~combined.raised /\ FieldMapping(combined.v))

\* C18: the merger is total: for every mapping from passes to pass data,
\* the empty mapping, any subset of the four passes and data of unexpected
\* shape included, merge returns a combined record and does not raise.
C18_MergeTotal ==
    Merged => ~combined.raised

\* The quality data of the argument has an overall_quality.score.
HasScore ==
    /\ HasFields(ArgData("quality"), {"overall_quality"})
    /\ HasFields(At(ArgData("quality"), "overall_quality"), {"score"})

\* C17 as stated: the merged record has no quality_score whenever the
\* quality pass is absent from the input mapping or its data has no
\* overall_quality.score.
C17_ScoreOmittedWithoutSource ==
    (Merged /\ ~combined.raised /\ ~HasScore)
        => ~HasKey(combined.v, W("quality_score"))

\* C17 amended: the merged record has no quality_score exactly when the
\* quality pass is absent from the input mapping or its data is empty;
\* when the quality data is not empty, quality_score is its
\* overall_quality.score, and the substitute 5.0 when it has none.
C17_ScoreOmittedWithoutQualityData ==
    (Merged /\ ~combined.raised) =>
        IF Truthy(ArgData("quality"))
        THEN Has(combined.v, "quality_score",
                 IF HasScore
                 THEN At(At(ArgData("quality"), "overall_quality"), "score")
                 ELSE JNum(5))
        ELSE ~HasKey(combined.v, W("quality_score"))

\* Quality data with a tier and no score.
C17_Witness ==
    /\ Merged
    /\ ~combined.raised
    /\ HasFields(ArgData("quality"), {"overall_quality"})
    /\ ~HasScore
    /\ Has(combined.v, "quality_score", JNum(5))

-----------------------------------------------------------------------------
(* Properties of the quick mode, checked under Spec.                        *)

\* What a returned quick session holds after its one pass.
QuickPassRecorded ==
    /\ Len(result.pass_results) = 1
    /\ LET pr == result.pass_results[1] IN
       /\ pr.pass_type = "quick"
       /\ pr.success =>
             /\ result.content = pr.data
             /\ result.combined = pr.data
             /\ result.passes_completed = 1
             /\ result.passes_failed = 0
             /\ _combine_results("content" :> pr.data) # Returned(result.combined)
       /\ ~pr.success =>
             /\ result.combined = JObj(<<>>)
             /\ result.passes_completed = 0
             /\ result.passes_failed = 1

\* The quick pass runs on the registered prompt alone, and nothing is ever
\* accumulated for a later pass.
QuickWithoutContext ==
    quick_mode =>
        /\ previous_analysis = <<>>
        /\ pc \in {"attempt", "record"} => prompt = Prompt("quick", <<>>)

\* C20 as stated: in quick mode exactly one pass, "quick", is executed with
\* no prior context; when it succeeds its data is, unchanged, both the
\* content result and the combined record, not the merger's output; when
\* it fails the combined record stays empty and passes_failed = 1.
C20_QuickRunsOnePass ==
    /\ QuickWithoutContext
    /\ (pc = "returned" /\ quick_mode) => QuickPassRecorded

\* C20 amended: in quick mode, unless the image conversion raises (then no
\* pass is executed and the combined record stays empty), exactly one
\* pass, "quick", is executed with no prior context; when it succeeds its
\* data is, unchanged, both the content result and the combined record,
\* not the merger's output; when it fails the combined record stays empty
\* and passes_failed = 1.
C20_QuickRunsOnePassUnlessImageFails ==
    /\ QuickWithoutContext
    /\ (pc = "returned" /\ quick_mode) =>
          IF orch_error = "image"
          THEN /\ result.pass_results = <<>>
               /\ result.combined = JObj(<<>>)
               /\ result.passes_completed = 0
               /\ result.passes_failed = 0
          ELSE orch_error = "none" /\ QuickPassRecorded

C20_Witness ==
    /\ pc = "returned"
    /\ quick_mode
    /\ result.passes_completed = 1
    /\ result.pass_results[1].success
    /\ IsDict(result.combined)
    /\ result.combined = result.content

-----------------------------------------------------------------------------
(* Properties of the order of the passes and of the context accumulator,    *)
(* checked under Spec.                                                      *)

\* The identifiers of the recorded passes that succeeded.
Succeeded(results) ==
    {results[i].pass_type : i \in {h \in 1..Len(results) : results[h].success}}

\* The passes before the current one are recorded, in the order content,
\* people, quality, context, and counted, and the context accumulator holds
\* the ones that succeeded.
EarlierPassesRecorded ==
    /\ pass_index \in 1..Len(get_comprehensive_passes)
    /\ PassTypes(result.pass_results)
           = SubSeq(get_comprehensive_passes, 1, pass_index - 1)
    /\ result.passes_completed + result.passes_failed = pass_index - 1
    /\ result.passes_completed = Cardinality(Succeeded(result.pass_results))
    /\ DOMAIN previous_analysis = Succeeded(result.pass_results)

\* C21: the passes of a comprehensive session execute strictly sequentially
\* in the order content, people, quality, context: whenever the backend is
\* invoked, it is invoked with the prompt of the pass that follows the
\* recorded ones, every earlier pass has ended its attempts and has its
\* result recorded in the session (counts and context accumulator updated),
\* and the invocation records nothing; the index of the current pass only
\* moves forward by one, when a result is recorded.
C21_PassesStrictlySequential ==
    [][Comprehensive =>
          /\ calls' > calls =>
                /\ EarlierPassesRecorded
                /\ prompt.template = get_comprehensive_passes[pass_index]
                /\ UNCHANGED <<result, previous_analysis, pass_index, prompt>>
          /\ pass_index' # pass_index =>
                /\ pass_index' = pass_index + 1
                /\ pc = "record"
                /\ Len(result'.pass_results) = Len(result.pass_results) + 1
                /\ result'.pass_results[pass_index] = pass_result
                /\ pass_result.pass_type = get_comprehensive_passes[pass_index]]_vars

\* The backend has been invoked for the context pass after a failed and two
\* succeeded passes.
C21_Witness ==
    /\ Comprehensive
    /\ pc = "attempt"
    /\ pass_index = 4
    /\ calls = 1
    /\ result.passes_failed = 1
    /\ result.passes_completed = 2

\* The recorded result of the pass, for a pass that is recorded.
RecordedPass(pass_type) ==
    LET i == CHOOSE h \in 1..Len(result.pass_results) :
                 result.pass_results[h].pass_type = pass_type
    IN  result.pass_results[i]

\* C22: at every point of a comprehensive session the keys of the context
\* accumulator are exactly the identifiers of the passes that succeeded so
\* far, each mapped to that pass's data (a failed pass contributes
\* nothing), and the pass being run was given exactly this accumulated
\* context: with chaining enabled and a non-empty accumulator its prompt is
\* the one format_prompt_with_context builds from it.
C22_AccumulatorHoldsSucceededPasses ==
    Comprehensive =>
        /\ DOMAIN previous_analysis = Succeeded(result.pass_results)
        /\ \A pass_type \in DOMAIN previous_analysis :
               previous_analysis[pass_type] = RecordedPass(pass_type).data
        /\ (pc \in {"attempt", "record"} /\ enable_context_chaining
                /\ DOMAIN previous_analysis # {})
              => prompt = format_prompt_with_context(
                              Prompt(CurrentPass, <<>>), previous_analysis,
                              image_metadata).prompt

\* The context pass runs after a failed content pass, a succeeded people
\* pass and a failed quality pass.
C22_Witness ==
    /\ Comprehensive
    /\ pc = "attempt"
    /\ pass_index = 4
    /\ DOMAIN previous_analysis = {"people"}
    /\ result.passes_failed = 2
    /\ enable_context_chaining

\* C23: for each failed pass of a session, in either mode, the errors list
\* of the session holds an error string tagged with that pass's identifier.
C23_FailedPassErrorTagged ==
    \A i \in 1..Len(result.pass_results) :
        ~result.pass_results[i].success =>
            \E e \in 1..Len(result.errors) :
                /\ result.errors[e].tag = result.pass_results[i].pass_type
                /\ result.errors[e].msg = result.pass_results[i].error.msg
                /\ result.errors[e].n = result.pass_results[i].error.n

-----------------------------------------------------------------------------
(* Properties of analyze_batch and of the independence of sessions,         *)
(* checked under SpecBatch.                                                 *)

\* C24: analyze_batch runs the sessions one at a time in input order,
\* whatever max_concurrent is: whenever the backend is invoked, the
\* sessions of all earlier images have returned and are in the list, and
\* the call belongs to the session of the next image; the list grows only
\* by the session that has just returned, at the position of its image;
\* the returned list has exactly one session per input image, also when
\* some sessions failed.
C24_BatchRunsSessionsInOrder ==
    [][/\ calls' > calls =>
             /\ bpc = "session"
             /\ image_at \in 1..Len(images)
             /\ Len(batch_results) = image_at - 1
             /\ image_metadata = images[image_at].metadata
             /\ UNCHANGED batchVars
       /\ batch_results' # batch_results =>
             /\ pc = "returned"
             /\ batch_results' = Append(batch_results, result)
             /\ Len(batch_results') = image_at
       /\ bpc' = "returned" => Len(batch_results') = Len(images')]_vars

\* Three images were analyzed with max_concurrent = 2; the first and the
\* last session failed.
C24_Witness ==
    /\ bpc = "returned"
    /\ max_concurrent = 2
    /\ Len(images) = 3
    /\ Len(batch_results) = 3
    /\ ~batch_results[1].success
    /\ batch_results[2].success
    /\ batch_results[2].passes_failed > 0
    /\ ~batch_results[3].success

\* The session about to run holds nothing of the sessions before it.
SessionStartsFresh ==
    /\ result = NewResult
    /\ previous_analysis = <<>>
    /\ pass_index = 1
    /\ attempt = 0
    /\ calls = 0
    /\ raw_response = NoText
    /\ pass_result = NoPassResult
    /\ orch_error = "none"

\* C25: sessions are independent: no mutable state crosses a session
\* boundary.  Every session of a batch starts from a new result and an
\* empty context accumulator, so the sessions of equal images (the same
\* image and the same backend outcomes) are equal (pass results, counts,
\* errors, combined record, success) wherever they stand in the batch and
\* whatever sessions ran before them, and no session modifies the pass
\* registry.
C25_SessionsIndependent ==
    /\ registry = PROMPTS
    /\ (bpc = "session" /\ pc = "start") => SessionStartsFresh
    /\ \A i, j \in 1..Len(batch_results) :
           images[i] = images[j] => batch_results[i] = batch_results[j]
    /\ (bpc = "session" /\ pc = "returned") =>
           \A i \in 1..Len(batch_results) :
               images[i] = images[image_at] => batch_results[i] = result

\* The first and the third image are the same, a different image was
\* analyzed between them, and every pass of it succeeded.
C25_Witness ==
    /\ bpc = "returned"
    /\ ~quick_mode
    /\ Len(batch_results) = 3
    /\ images[1] = images[3]
    /\ images[2] # images[1]
    /\ batch_results[1] = batch_results[3]
    /\ batch_results[1].passes_failed > 0
    /\ batch_results[1].passes_completed > 0
    /\ batch_results[2].passes_completed = 4

-----------------------------------------------------------------------------
(* Properties of the pass executor called on its own, checked under         *)
(* SpecRun.                                                                 *)

\* The retry loop runs, or has returned a result, with the default
\* generation parameters: temperature 0.3 and a budget of 1024 tokens.
RunsWithDefaults ==
    /\ pc \in {"call_pass", "attempt", "record"}
    /\ pc \in {"attempt", "record"} =>
          options = [temperature |-> 3, num_predict |-> 1024]
    /\ pc = "record" =>
          /\ pass_result.pass_type = pass_type_arg
          /\ calls \in 1..(max_retries + 1)

\* C26: when the pass executor is run for a pass identifier for which no
\* definition is registered, it does not fail: it runs the retry loop with
\* the default generation parameters, temperature 0.3 and token budget
\* 1024, and returns a PassResult.
C26_UnregisteredPassUsesDefaults ==
    pass_type_arg \notin DOMAIN registry => RunsWithDefaults

-----------------------------------------------------------------------------
(* Properties of the extractor's fallback, escapes and re-scans, checked    *)
(* under SpecExtract.                                                       *)

\* No brace group the scan finds in t, one after the other, parses.
NoCandidateParses(t) ==
    LET groups == BraceGroups(t, 1) IN
    \A g \in 1..Len(groups) : ~Loads(SubSeq(t, groups[g][1], groups[g][2])).ok

\* C27: the strategies are applied in order, stopping at the first success:
\* whenever the text is not as a whole a JSON value and the brace scan
\* yields no candidate that parses (every balanced candidate is invalid, or
\* the first brace is unterminated), the pattern '{...}' without nested
\* braces is applied to the text and, if its match parses, that value is
\* returned; failure is returned only after this fallback has also failed.
C27_FallbackAfterScan ==
    (xpc = "done" /\ text # <<>> /\ ~Loads(Strip(text)).ok
        /\ NoCandidateParses(text))
        => extracted = Strategy3(text)

\* The last index the scan of t from i looks at: the closing brace of the
\* candidate, or the end of the text.
ScanEnd(t, i) ==
    LET j == BraceScan(t, i, ScanStart) IN IF j = 0 THEN Len(t) ELSE j

\* What the scan does on t[k], given its locals before that character.
EscapeRules(before, char, after) ==
    /\ before.escape_next => before.in_string
    /\ before.escape_next => after = [before EXCEPT !.escape_next = FALSE]
    /\ (~before.escape_next /\ before.in_string /\ char = "\\") =>
          after = [before EXCEPT !.escape_next = TRUE]
    /\ (~before.escape_next /\ before.in_string /\ char = "\"") =>
          after = [before EXCEPT !.in_string = FALSE]
    /\ before.in_string => after.brace_count = before.brace_count
    /\ (~before.in_string /\ char = "\\") => after = before
    /\ (~before.in_string /\ char = "{") =>
          after.brace_count = before.brace_count + 1
    /\ (~before.in_string /\ char = "}") =>
          after.brace_count = before.brace_count - 1

\* C28: in the brace scan a backslash inside a quoted string makes exactly
\* the one following character inert: an escaped quote does not toggle the
\* inside-string flag, so braces that follow an escaped quote within the
\* same string value still do not change the depth counter; a backslash
\* outside a string escapes nothing, the character after it acts as usual.
C28_EscapeCoversOneCharacter ==
    xpc = "done" =>
        LET i == Find(text, "{") IN
        i # 0 =>
            \A k \in i..ScanEnd(text, i) :
                EscapeRules(ScanTo(text, i, k - 1), text[k], ScanTo(text, i, k))

\* a{"a":"\"{"}: the quote at 9 is escaped, the brace at 10 is inside the
\* string, and the object is returned.
C28_Witness ==
    /\ xpc = "done"
    /\ text = <<"a", "{", "\"", "a", "\"", ":", "\"", "\\", "\"", "{", "\"", "}">>
    /\ ScanTo(text, 2, 8).escape_next
    /\ ScanTo(text, 2, 9).in_string
    /\ ScanTo(text, 2, 10).brace_count = 1
    /\ BraceScan(text, 2, ScanStart) = 12
    /\ extracted = ExtractValue(JObj(<<JMember(<<"a">>, JStr(<<"\"", "{">>))>>))

\* The indices at which the brace groups of t end.
GroupEnds(t) ==
    LET groups == BraceGroups(t, 1) IN {groups[g][2] : g \in 1..Len(groups)}

\* The remainder of the input text after the brace group that ends at j.
After(j) == SubSeq(text, j + 1, Len(text))

\* A recursive call is made: on a strictly shorter remainder that starts
\* after the closing brace of a candidate that did not parse.
RescanStep ==
    /\ rescans' = rescans + 1
    /\ Len(remaining') < Len(remaining)
    /\ \E j \in GroupEnds(text) :
          /\ remaining' = After(j)
          /\ j = Len(text) - Len(remaining) + BraceScan(remaining, Find(remaining, "{"), ScanStart)
          /\ ~Loads(SubSeq(remaining, Find(remaining, "{"),
                           BraceScan(remaining, Find(remaining, "{"), ScanStart))).ok

\* C29: the extractor terminates on every input, the number of re-scans it
\* performs after invalid candidates is at most the number of top-level
\* brace groups of the text, each re-scan works on a strictly shorter
\* remainder that starts after the rejected candidate's closing brace, and
\* what the last call returns is the function's result.
C29_RescansBounded ==
    /\ [][rescans' # rescans => RescanStep]_vars
    /\ [](rescans <= Len(BraceGroups(text, 1)))
    /\ [](xpc = "done" => extracted = extract_json_from_response(text))
    /\ <>(xpc = "done")

\* Two groups that are not JSON were rejected before the third one parsed.
C29_Witness ==
    /\ xpc = "done"
    /\ rescans = 2
    /\ Len(BraceGroups(text, 1)) = 3
    /\ remaining = <<"{", "\"", "a", "\"", ":", "1", "}">>
    /\ extracted = ExtractValue(JObj(<<JMember(<<"a">>, JNum(1))>>))

\* The prior context the running pass was called with: none for the quick
\* pass, the context accumulator for a comprehensive pass.
PriorContext == IF quick_mode THEN <<>> ELSE previous_analysis

\* The pass's registered template with nothing appended.
RegisteredTemplate == Prompt(registry[pass_type_arg].template, <<>>)

\* C30: the prompt sent to the backend in every attempt of a pass is the
\* pass's registered template unchanged whenever context chaining is
\* disabled or the prior context is empty (the quick pass, the content pass,
\* any pass run while no earlier pass has succeeded), even if image metadata
\* is supplied; a context block is appended only when chaining is enabled
\* and the prior context is non-empty, and then to the registered template.
C30_PromptUnchangedWithoutContext ==
    pc = "attempt" =>
        /\ pass_type_arg \in DOMAIN registry
        /\ prompt.template = RegisteredTemplate.template
        /\ (~enable_context_chaining \/ DOMAIN PriorContext = {})
               => prompt = RegisteredTemplate
        /\ quick_mode => prompt = RegisteredTemplate
        /\ pass_type_arg = "content" => prompt = RegisteredTemplate
        /\ Succeeded(result.pass_results) = {} => prompt = RegisteredTemplate
        /\ prompt.context # <<>>
               => enable_context_chaining /\ DOMAIN PriorContext # {}

\* The people pass is retried with chaining enabled and image metadata
\* supplied after the content pass failed: the prompt is the template.
C30_Witness ==
    /\ pc = "attempt"
    /\ attempt >= 1
    /\ ~quick_mode
    /\ enable_context_chaining
    /\ image_metadata # JNull
    /\ pass_type_arg = "people"
    /\ Succeeded(result.pass_results) = {}
    /\ result.passes_failed = 1
    /\ prompt = RegisteredTemplate

\* Two values of pass data that the context lines tell apart, if they read
\* the data at all.
ProbeData ==
    { JObj(<<>>),
      JObj(<<JMember(W("main_subjects"), JArr(<<JStr(W("cat"))>>))>>) }

\* The prompt of the running pass depends on the data of the earlier pass
\* name: with other data in its place the prompt would be another one.
FoldsIn(name) ==
    \E data \in ProbeData :
        format_prompt_with_context(RegisteredTemplate, previous_analysis, image_metadata)
            # format_prompt_with_context(RegisteredTemplate,
                  [previous_analysis EXCEPT ![name] = data], image_metadata)

\* The earlier successful passes whose output the prompt folds in.
FoldedPasses == {name \in DOMAIN previous_analysis : FoldsIn(name)}

\* C31: the context block appended to the prompt of a pass of a
\* comprehensive session folds in the output of exactly the earlier
\* successful passes named in the pass's depends_on list, and of no other.
C31_BlockFoldsDeclaredDependencies ==
    (pc = "attempt" /\ Comprehensive /\ enable_context_chaining
        /\ DOMAIN previous_analysis # {})
        => FoldedPasses = build_analysis_chain[pass_type_arg] \cap DOMAIN previous_analysis

\* The persons the people pass of the argument lists.
ListedPersons ==
    IF HasFields(ArgData("people"), {"people"})
          /\ At(ArgData("people"), "people").k = "arr"
    THEN At(ArgData("people"), "people").c
    ELSE <<>>

\* The person has an emotion value.
HasEmotion(person) == HasFields(person, {"emotion"}) /\ Truthy(At(person, "emotion"))

\* The emotion values of the listed persons that have one, in input order.
ListedEmotions ==
    LET having == SelectSeq(ListedPersons, HasEmotion) IN
    [i \in 1..Len(having) |-> At(having[i], "emotion")]

\* C32: the merged record's summary.emotions is the list, in input order,
\* of the emotion value of each person listed in the people pass that has
\* one; it is the empty list when the people pass is absent or lists no
\* person with an emotion.
C32_EmotionsOfListedPersons ==
    (Merged /\ ~combined.raised)
        => Has(At(combined.v, "summary"), "emotions", JArr(ListedEmotions))

\* The data of the passes that succeeded in the session, by pass.
SucceededData ==
    [name \in Succeeded(result.pass_results) |-> RecordedPass(name).data]

C34_ExhaustedErrorNamesPassAndAttempts ==
    (pc = "record" /\ ~pass_result.success) =>
        /\ pass_result.error.set
        /\ pass_result.error.n = max_retries + 1
        /\ calls = max_retries + 1
        /\ pass_result.error.tag = pass_result.pass_type

\* The first at most n characters of t.
Prefix(t, n) == [i \in 1..(IF Len(t) < n THEN Len(t) ELSE n) |-> t[i]]

\* An attempt in which the backend does outcome: raw_response is the last
\* response returned so far, a result built on success carries the bounded
\* sample of the response that parsed, and a result built on exhaustion
\* the bounded sample of the last response returned, if any.
SampleAfter(outcome) ==
    /\ raw_response' = IF outcome.err THEN raw_response ELSE SomeText(outcome.text)
    /\ (pc' = "record" /\ pass_result'.success) =>
          /\ ~outcome.err
          /\ pass_result'.raw_response = SomeText(Prefix(outcome.text, 500))
    /\ (pc' = "record" /\ ~pass_result'.success) =>
          pass_result'.raw_response
              = IF raw_response'.set
                THEN SomeText(Prefix(raw_response'.text, 500))
                ELSE NoText

\* C35: the raw-text sample of a pass result is bounded: on success the
\* first at most 500 characters of the response that parsed, on exhaustion
\* the first at most 500 characters of the last response the backend
\* returned during the pass, also when later attempts raised, and absent
\* when no attempt returned a response.
C35_RawSampleBounded ==
    /\ [](pc \in {"call_pass", "raised"} => ~raw_response.set)
    /\ [](pc = "record" => Len(pass_result.raw_response.text) <= 500)
    /\ [][\A outcome \in BackendOutcomes \cup LongOutcomes :
              AttemptGiving(outcome) => SampleAfter(outcome)]_vars

\* The first attempt returned a text of 501 characters, the second raised:
\* the failed result carries the first 500 characters of the text.
C35_Witness ==
    /\ pc = "record"
    /\ ~pass_result.success
    /\ attempt_log = <<"none", "error">>
    /\ raw_response = SomeText(LongProseResponse)
    /\ pass_result.raw_response.set
    /\ Len(pass_result.raw_response.text) = 500

\* The extractor returns a value for the response, and the value is empty.
EmptyExtraction(outcome) ==
    /\ ~outcome.err
    /\ extract_json_from_response(outcome.text).st = "value"
    /\ ~Truthy(extract_json_from_response(outcome.text).v)

\* C36: a response with the text '{}', or any response for which the
\* extractor returns an empty value, is an extraction failure: it consumes
\* one attempt and the loop continues, and when it is the outcome of every
\* attempt the pass returns success = false.
C36_EmptyValueIsExtractionFailure ==
    /\ EmptyExtraction(BackendText(EmptyObjectResponse))
    /\ [][\A outcome \in BackendOutcomes \cup LongOutcomes :
              (EmptyExtraction(outcome) /\ AttemptGiving(outcome)) =>
                  /\ calls' = calls + 1
                  /\ IF attempt < max_retries
                     THEN pc' = "attempt" /\ attempt' = attempt + 1
                     ELSE pc' = "record" /\ ~pass_result'.success]_vars
    /\ [](/\ pc = "record"
          /\ trace
          /\ \A i \in 1..Len(attempt_log) : attempt_log[i] = "empty"
          => /\ ~pass_result.success
             /\ Len(attempt_log) = max_retries + 1)

\* Every one of three attempts was answered with '{}'.
C36_Witness ==
    /\ pc = "record"
    /\ max_retries = 2
    /\ attempt_log = <<"empty", "empty", "empty">>
    /\ raw_response = SomeText(EmptyObjectResponse)
    /\ ~pass_result.success
    /\ pass_result.data = JObj(<<>>)

\* The number of results with success = true.
SuccessCount(results) == Cardinality({i \in 1..Len(results) : results[i].success})

\* C37: in every state of a session, whatever passes have been recorded so
\* far, passes_completed + passes_failed is the number of results in
\* pass_results, pass_results lists the executed passes in execution order
\* with at most one result per pass, and passes_completed is the number of
\* results with success = true; also in a session that ends with an
\* orchestration-level error.
C37_CountersMatchPassResults ==
    /\ result.passes_completed + result.passes_failed = Len(result.pass_results)
    /\ result.passes_completed = SuccessCount(result.pass_results)
    /\ result.passes_failed
           = Len(result.pass_results) - SuccessCount(result.pass_results)
    /\ Len(result.pass_results) <= Len(ModePasses(quick_mode))
    /\ \A i \in 1..Len(result.pass_results) :
           result.pass_results[i].pass_type = ModePasses(quick_mode)[i]
    /\ \A i, j \in 1..Len(result.pass_results) :
           result.pass_results[i].pass_type = result.pass_results[j].pass_type
               => i = j
    /\ pc \in {"next_pass", "attempt"} => Len(result.pass_results) = pass_index - 1
    /\ pc = "record" => Len(result.pass_results) = pass_index - 1

\* A session returned after the merge raised, with a failed pass among the
\* four recorded.
C37_Witness ==
    /\ pc = "returned"
    /\ orch_error = "merge"
    /\ Len(result.pass_results) = 4
    /\ result.passes_completed = 3
    /\ result.passes_failed = 1

\* An exception reached the handler of analyze.
OrchestrationError == orch_error # "none"

\* C38: in every returned session the errors list has passes_failed
\* entries, and one more if an orchestration-level error occurred; so a
\* session with passes_failed = 0 and no orchestration-level error has an
\* empty errors list, and a session with success = false a non-empty one.
C38_ErrorsCountFailures ==
    pc = "returned" =>
        /\ Len(result.errors)
               = result.passes_failed + (IF OrchestrationError THEN 1 ELSE 0)
        /\ (result.passes_failed = 0 /\ ~OrchestrationError) => result.errors = <<>>
        /\ ~result.success => result.errors # <<>>

\* Two passes failed and the merge raised: three errors.
C38_Witness ==
    /\ pc = "returned"
    /\ orch_error = "merge"
    /\ result.passes_failed = 2
    /\ Len(result.errors) = 3
    /\ ~result.success

-----------------------------------------------------------------------------
(* Whole sessions with the backend invocations of the session counted.     *)

InitSession ==
    /\ RegistryCreated
    /\ ExtractorIdle
    /\ MergerIdle
    /\ BatchIdle
    /\ CallAnalyze
    /\ trace = FALSE
    /\ count_calls = TRUE

\* analyze has returned.
SessionOver == pc = "returned"

\* Every backend call returns or raises and nothing else in analyze waits:
\* weak fairness of the step, WF_vars(Next), with the enabling condition
\* of the step written out (a step is possible exactly until analyze has
\* returned).
SpecSession ==
    InitSession /\ [][Next]_vars /\ ([]<>SessionOver \/ []<><<Next>>_vars)

\* The backend invocations a session of the mode may make.
InvocationBudget == (IF quick_mode THEN 1 ELSE 4) * (max_retries + 1)

\* The passes that have returned a result to analyze.
ReturnedPasses ==
    {result.pass_results[k].pass_type : k \in 1..Len(result.pass_results)}

\* A step that starts the retry loop of a pass.
StartsPass == pc = "next_pass" /\ pc' = "attempt"

\* C39: every session whose backend calls all return or raise comes to its
\* return; it makes at most 4 * (max_retries + 1) backend invocations in
\* comprehensive mode and at most max_retries + 1 in quick mode; and a pass
\* that has returned a result is never started again.
C39_SessionTerminatesWithinBudget ==
    /\ <>SessionOver
    /\ [](invocations <= InvocationBudget)
    /\ [][/\ pass_index' >= pass_index
          /\ StartsPass => pass_type_arg' \notin ReturnedPasses]_vars

\* C39: a comprehensive session with retries has returned after every pass
\* used every attempt.
C39_Witness ==
    /\ SessionOver
    /\ ~quick_mode
    /\ max_retries > 0
    /\ invocations = InvocationBudget
    /\ Len(result.pass_results) = 4

====
